---- MODULE Spec2Model ----
(***************************************************************************)
(* Phone rotation and sticky-session selection of the link-redirection     *)
(* service: the deterministic shuffle and selectPhone (lib/rotation), the  *)
(* storage operations of db/phones, selectPhoneForClick                    *)
(* (services/phoneSelector) and the part of handleRedirect                 *)
(* (routes/redirect) that calls it.                                        *)
(*                                                                         *)
(* Strings are sequences of character codes.  TLC's integers are 32-bit,   *)
(* so the 64-bit floating point arithmetic of the seeded generator is      *)
(* carried out on base-65536 digits <<d0, d1, d2, d3>> (least significant  *)
(* first).                                                                 *)
(***************************************************************************)
EXTENDS Integers, Sequences, FiniteSets, TLC

(***************************************************************************)
(* Bounds of the model.                                                    *)
(***************************************************************************)
\* longest generated seed string of the pure-function specification
MaxSeedLen == 3
\* largest pool of the pure-function specification
MaxPool == 3
\* largest weight of a pool entry of the pure-function specification
MaxWeight == 2
\* cycles of the counter over the pool in the pure-function specification
MaxCycles == 2
\* clicks of one behaviour of the selection engine
MaxClicks == 2
\* clicks in flight at once
MaxConcurrent == 2
\* clicks of one behaviour of the sticky-race specification
MaxRaceClicks == 3
\* clicks of one behaviour of the fairness specification
MaxFairClicks == 6
\* requests of one behaviour of the redirect specification
MaxRequests == 2
\* admin operations (pause, unpause, delete) of one behaviour
MaxAdminOps == 1
\* storage calls that raise an error in one behaviour
MaxFaults == 1
\* cleanup sweeps triggered in one behaviour
MaxSweeps == 1
\* hours the clock advances in one behaviour
MaxTime == 2
\* calls of one behaviour of the repeated-call specification
MaxCalls == 2
\* requests of one behaviour of the override specification
MaxOverrideRequests == 2
\* clicks of one behaviour of the two-campaign specification
MaxCampaignClicks == 3
\* the sticky TTL of the campaigns, in hours
TtlHours == 1

(***************************************************************************)
(* The stored data: campaigns (links), link_phones, link_rotation and      *)
(* fingerprint_map, and the clicks in flight.                              *)
(***************************************************************************)
VARIABLES
    link,         \* links: the rotation columns of each campaign
    phoneStatus,  \* link_phones.status of each row; "NONE" when the row is gone
    rotation,     \* link_rotation.counter of each campaign; NoRow without a row
    fpMap,        \* fingerprint_map: rows [linkId, fingerprintHash, phoneId, expiresAt]
    totalClicks,  \* link_phones.totalClicks of each row
    now,          \* the clock, in hours
    inv,          \* the clicks: position and locals of each invocation
    sweeps,       \* cleanupExpiredMappings calls started and not yet run
    statsCalls,   \* recordPhoneClick calls started and not yet run, per phone
    budget,       \* what the environment may still do (admin operations,
                  \* storage errors, sweeps) and the inputs it draws from
    pure          \* the call record of the pure-function specification

vars == <<link, phoneStatus, rotation, fpMap, totalClicks, now, inv, sweeps,
          statsCalls, budget, pure>>

(***************************************************************************)
(* Number representation.                                                  *)
(***************************************************************************)
\* the digit base
Base == 2^16
\* 0x7fffffff
Int32Max == 2147483647

\* carry propagation over four digits (each x_i >= 0)
Norm(n) ==
    LET t0 == n[1]
        t1 == n[2] + (t0 \div Base)
        t2 == n[3] + (t1 \div Base)
        t3 == n[4] + (t2 \div Base)
    IN  <<t0 % Base, t1 % Base, t2 % Base, t3>>

\* number of significant bits of a digit
BitLen16(d) == CHOOSE k \in 0..30 : d < 2^k /\ (k = 0 \/ d >= 2^(k-1))

\* number of significant bits of a four-digit number
BitLen(n) ==
    IF n[4] > 0 THEN 48 + BitLen16(n[4])
    ELSE IF n[3] > 0 THEN 32 + BitLen16(n[3])
    ELSE IF n[2] > 0 THEN 16 + BitLen16(n[2])
    ELSE BitLen16(n[1])

\* IEEE-754 binary64 round-to-nearest, ties-to-even, of a non-negative integer:
\* the value keeps its 53 leading bits
RoundDouble(n) ==
    LET e == BitLen(n) - 53
    IN  IF e <= 0 THEN n
        ELSE LET pw   == 2^e
                 r    == n[1] % pw
                 half == pw \div 2
                 odd  == (n[1] \div pw) % 2 = 1
                 up   == r > half \/ (r = half /\ odd)
             IN  Norm(<<n[1] - r + (IF up THEN pw ELSE 0), n[2], n[3], n[4]>>)

\* n - k for a four-digit n >= k and 0 <= k < Base
SubSmall(n, k) ==
    IF n[1] >= k THEN <<n[1] - k, n[2], n[3], n[4]>>
    ELSE IF n[2] > 0 THEN <<n[1] + Base - k, n[2] - 1, n[3], n[4]>>
    ELSE IF n[3] > 0 THEN <<n[1] + Base - k, Base - 1, n[3] - 1, n[4]>>
    ELSE <<n[1] + Base - k, Base - 1, Base - 1, n[4] - 1>>

\* the exact product m * a of two numbers given as digit pairs <<low, high>>
MulDigits(m, a) ==
    LET t0 == m[1] * a[1]
        t1 == m[2] * a[1] + m[1] * a[2] + (t0 \div Base)
        t2 == m[2] * a[2] + (t1 \div Base)
    IN  <<t0 % Base, t1 % Base, t2 % Base, t2 \div Base>>

\* the low 31 bits of a four-digit number
Low31(n) == (n[2] % 32768) * Base + n[1]

\* ToInt32 of 31 * h + c: the 32-bit wrap of ((h << 5) - h + c) | 0
HashStep(h, c) ==
    LET lo  == 31 * (h % Base) + c
        hi  == (31 * (h \div Base) + (lo \div Base)) % Base
        shi == IF hi >= 32768 THEN hi - Base ELSE hi
    IN  shi * Base + (lo % Base)


(***************************************************************************)
(* lib/rotation: the seeded generator of the shuffle.                      *)
(***************************************************************************)
\* multiplier and increment of the seeded generator
LcgMultiplier == 1103515245
LcgIncrement == 12345

NoPhone == "null"
\* the entry a swap reads beyond the end of the array, and selectPhone's null
Undefined == [id |-> "undefined", phoneNumber |-> "undefined", weight |-> 0]
NullEntry == [id |-> NoPhone, phoneNumber |-> NoPhone, weight |-> 0]

\* |s| as a digit pair <<low, high>>, for s in the signed 32-bit range
AbsDigits(s) ==
    IF s >= 0 THEN <<s % Base, s \div Base>>
    ELSE IF s % Base = 0 THEN <<0, -(s \div Base)>>
    ELSE <<Base - (s % Base), -(s \div Base) - 1>>

\* seedNum = (seedNum * 1103515245 + 12345) & 0x7fffffff: the product and the
\* sum are binary64 operations, the mask first takes the sum modulo 2^32
LcgStep(s) ==
    LET x == RoundDouble(MulDigits(AbsDigits(s),
                 <<LcgMultiplier % Base, LcgMultiplier \div Base>>))
    IN  IF s >= 0
        THEN Low31(RoundDouble(Norm(<<x[1] + LcgIncrement, x[2], x[3], x[4]>>)))
        ELSE LET y == Low31(RoundDouble(SubSmall(x, LcgIncrement)))
             IN  IF y = 0 THEN 0 ELSE (Int32Max - y) + 1

\* the carries of k additions of s modulo 0x7fffffff: floor(s * k / 0x7fffffff)
RECURSIVE ScaleAcc(_, _, _, _)
ScaleAcc(s, k, acc, carry) ==
    IF k = 0 THEN carry
    ELSE IF acc >= Int32Max - s
         THEN ScaleAcc(s, k - 1, acc - (Int32Max - s), carry + 1)
         ELSE ScaleAcc(s, k - 1, acc + s, carry)

\* Math.round instead of Math.floor
RandomIndexRound(s, k) == (ScaleAcc(s, 2 * k, 0, 0) + 1) \div 2

\* the index rounded up instead of down
RandomIndexCeil(s, k) == ScaleAcc(s, k, 0, 0) + 1

\* Math.floor((seedNum / 0x7fffffff) * k).  0x7fffffff is prime, so for
\* 0 < s < 0x7fffffff and small k the exact quotient is no integer and lies
\* further from one than the two roundings can move it
RandomIndex(s, k) == IF s = Int32Max THEN k ELSE ScaleAcc(s, k, 0, 0)

(***************************************************************************)
(* Strings of the model, as character codes.                               *)
(***************************************************************************)
Colon == <<58>>
Hyphen == <<45>>
HexDigits == <<48, 49, 50, 51, 52, 53, 54, 55, 56, 57, 97, 98, 99, 100, 101, 102>>

\* the decimal digits of a natural number, as `${n}` prints them
RECURSIVE DecimalString(_)
DecimalString(n) ==
    IF n < 10 THEN <<48 + n>>
    ELSE DecimalString(n \div 10) \o <<48 + (n % 10)>>

(***************************************************************************)
(* node:crypto, createHash('sha256'): SHA-256 as FIPS 180-4 defines it.    *)
(***************************************************************************)
\* the round constants and the initial hash value of SHA-256 (FIPS 180-4);
\* a 32-bit word is a pair <<hi, lo>> of 16-bit halves
Sha256K ==
    <<
      <<17034, 12184>>, <<28983, 17553>>, <<46528, 64463>>, <<59829, 56229>>,
      <<14678, 49755>>, <<23025, 4593>>, <<37439, 33444>>, <<43804, 24277>>,
      <<55303, 43672>>, <<4739, 23297>>, <<9265, 34238>>, <<21772, 32195>>,
      <<29374, 23924>>, <<32990, 45566>>, <<39900, 1703>>, <<49563, 61812>>,
      <<58523, 27073>>, <<61374, 18310>>, <<4033, 40390>>, <<9228, 41420>>,
      <<11753, 11375>>, <<19060, 33962>>, <<23728, 43484>>, <<30457, 35034>>,
      <<38974, 20818>>, <<43057, 50797>>, <<45059, 10184>>, <<48985, 32711>>,
      <<50912, 3059>>, <<54695, 37191>>, <<1738, 25425>>, <<5161, 10599>>,
      <<10167, 2693>>, <<11803, 8504>>, <<19756, 28156>>, <<21304, 3347>>,
      <<25866, 29524>>, <<30314, 2747>>, <<33218, 51502>>, <<37490, 11397>>,
      <<41663, 59553>>, <<43034, 26187>>, <<49739, 35696>>, <<51052, 20899>>,
      <<53650, 59417>>, <<54937, 1572>>, <<62478, 13701>>, <<4202, 41072>>,
      <<6564, 49430>>, <<7735, 27656>>, <<10056, 30540>>, <<13488, 48309>>,
      <<14620, 3251>>, <<20184, 43594>>, <<23452, 51791>>, <<26670, 28659>>,
      <<29839, 33518>>, <<30885, 25455>>, <<33992, 30740>>, <<36039, 520>>,
      <<37054, 65530>>, <<42064, 27883>>, <<48889, 41975>>, <<50801, 30962>>
    >>

Sha256H0 ==
    <<
      <<27145, 58983>>, <<47975, 44677>>, <<15470, 62322>>, <<42319, 62778>>,
      <<20750, 21119>>, <<39685, 26764>>, <<8067, 55723>>, <<23520, 52505>>
    >>

\* x ^ y ^ z, Ch(x, y, z) and Maj(x, y, z) of one bit, at index 4x + 2y + z + 1
BitOps == [xor |-> <<0, 1, 1, 0, 1, 0, 0, 1>>,
           ch  |-> <<0, 1, 0, 1, 0, 0, 1, 1>>,
           maj |-> <<0, 0, 0, 1, 0, 1, 1, 1>>]

\* a bitwise function of three 16-bit numbers, from bit k up
RECURSIVE Bitwise16(_, _, _, _, _)
Bitwise16(op, a, b, c, k) ==
    IF k >= 16 THEN 0
    ELSE op[4 * ((a \div 2^k) % 2) + 2 * ((b \div 2^k) % 2) + ((c \div 2^k) % 2) + 1]
            * 2^k
         + Bitwise16(op, a, b, c, k + 1)

\* a bitwise function of three words
Bitwise32(op, x, y, z) ==
    <<Bitwise16(op, x[1], y[1], z[1], 0), Bitwise16(op, x[2], y[2], z[2], 0)>>

\* addition modulo 2^32
Add32(x, y) ==
    LET lo == x[2] + y[2]
        hi == x[1] + y[1] + (lo \div 65536)
    IN  <<hi % 65536, lo % 65536>>

\* rotation and shift to the right by n bits (n < 16 for the shift)
Rotr(x, n) ==
    LET y == IF n >= 16 THEN <<x[2], x[1]>> ELSE x
        m == n % 16
    IN  <<(y[1] \div 2^m) + (y[2] % 2^m) * 2^(16 - m),
          (y[2] \div 2^m) + (y[1] % 2^m) * 2^(16 - m)>>

Shr(x, n) ==
    <<x[1] \div 2^n, (x[2] \div 2^n) + (x[1] % 2^n) * 2^(16 - n)>>

\* the message with the padding: 0x80, zeros, and the bit length in 64 bits
Padded(bytes) ==
    LET n     == Len(bytes)
        zeros == (119 - (n % 64)) % 64
        bits  == 8 * n
    IN  bytes \o <<128>> \o [k \in 1..zeros |-> 0]
        \o <<0, 0, 0, 0, (bits \div 16777216) % 256, (bits \div 65536) % 256,
             (bits \div 256) % 256, bits % 256>>

\* the message schedule extended to 64 words (the test on the length has w
\* evaluated before the next iteration)
RECURSIVE Extend(_)
Extend(w) ==
    LET Sigma0(x) == Bitwise32(BitOps.xor, Rotr(x, 7), Rotr(x, 18), Shr(x, 3))
        Sigma1(x) == Bitwise32(BitOps.xor, Rotr(x, 17), Rotr(x, 19), Shr(x, 10))
        t == Len(w) + 1
    IN  IF Len(w) >= 64 \/ Len(w) < 16 THEN w
        ELSE Extend(Append(w, Add32(Add32(Sigma1(w[t - 2]), w[t - 7]),
                                    Add32(Sigma0(w[t - 15]), w[t - 16]))))

\* the message schedule of the block that starts after byte `from`: its 16
\* big-endian words, extended to 64 words
Schedule(msg, from) ==
    Extend(SubSeq([t \in 1..16 |->
                      <<256 * msg[from + 4 * t - 3] + msg[from + 4 * t - 2],
                        256 * msg[from + 4 * t - 1] + msg[from + 4 * t]>>], 1, 16))

\* one round on the working variables v = <<a, b, c, d, e, f, g, h>> with
\* the sums t1 and t2
Round(v, t1, t2) ==
    <<Add32(t1, t2), v[1], v[2], v[3], Add32(v[4], t1), v[5], v[6], v[7]>>

\* the rounds t..64 with the schedule w (the test on the length has v
\* evaluated before the next round)
RECURSIVE Rounds(_, _, _)
Rounds(v, w, t) ==
    LET Sigma0(x) == Bitwise32(BitOps.xor, Rotr(x, 2), Rotr(x, 13), Rotr(x, 22))
        Sigma1(x) == Bitwise32(BitOps.xor, Rotr(x, 6), Rotr(x, 11), Rotr(x, 25))
    IN  IF t > 64 \/ Len(v) # 8 THEN v
        ELSE Rounds(Round(v,
                          Add32(Add32(Add32(v[8], Sigma1(v[5])),
                                      Add32(Bitwise32(BitOps.ch, v[5], v[6], v[7]),
                                            Sha256K[t])),
                                w[t]),
                          Add32(Sigma0(v[1]), Bitwise32(BitOps.maj, v[1], v[2], v[3]))),
                    w, t + 1)

\* the working variables added to the hash value h
AddWords(h, v) ==
    <<Add32(h[1], v[1]), Add32(h[2], v[2]), Add32(h[3], v[3]), Add32(h[4], v[4]),
      Add32(h[5], v[5]), Add32(h[6], v[6]), Add32(h[7], v[7]), Add32(h[8], v[8])>>

\* the compression of the block with schedule w into the hash value h
Compress(h, w) == AddWords(h, Rounds(h, w, 1))

\* the blocks of the padded message, from the block after byte `from` on
RECURSIVE Blocks(_, _, _)
Blocks(msg, from, h) ==
    IF from >= Len(msg) \/ Len(h) # 8 THEN h
    ELSE Blocks(msg, from + 64, Compress(h, Schedule(msg, from)))

\* the eight lowercase hex digits of each word of h, from word i on
RECURSIVE HexWords(_, _)
HexWords(h, i) ==
    LET Hex16(x) ==
            <<HexDigits[(x \div 4096) + 1], HexDigits[((x \div 256) % 16) + 1],
              HexDigits[((x \div 16) % 16) + 1], HexDigits[(x % 16) + 1]>>
    IN  IF i > Len(h) THEN <<>>
        ELSE Hex16(h[i][1]) \o Hex16(h[i][2]) \o HexWords(h, i + 1)

\* createHash('sha256').update(str).digest('hex'): the SHA-256 digest of the
\* string in lowercase hex digits
Sha256Hex(str) == HexWords(Blocks(Padded(str), 0, Sha256H0), 1)

\* lib/isBot: an absent user agent is a bot; of the patterns the model keeps
\* /bot/i, the only one its user agents can match
ToLower(c) == IF c >= 65 /\ c <= 90 THEN c + 32 ELSE c

isBot(userAgent) ==
    IF userAgent = <<>> THEN TRUE
    ELSE \E k \in 1..Len(userAgent) :
            /\ k + 2 <= Len(userAgent)
            /\ <<ToLower(userAgent[k]), ToLower(userAgent[k + 1]),
                 ToLower(userAgent[k + 2])>> = <<98, 111, 116>>


(***************************************************************************)
(* The campaigns and their pools.                                          *)
(***************************************************************************)
Links == {"L1", "L2"}
PhoneIds == {"p1", "p2", "p3", "q1"}
\* the rows of link_phones in the order of their createdAt
PhoneOrder == <<"p1", "p2", "p3", "q1">>
PhoneLink == [p1 |-> "L1", p2 |-> "L1", p3 |-> "L1", q1 |-> "L2"]
PhoneNumber == [p1 |-> "+1111", p2 |-> "+2222", p3 |-> "+3333", q1 |-> "+4444"]
DefaultPhone == [L1 |-> "+1000", L2 |-> "+2000"]
\* the phone of an admin override request
OverridePhone == "+9999"
\* the character codes of the ids, secrets, addresses and user agents
Chars == [L1 |-> <<76, 49>>, L2 |-> <<76, 50>>, stable |-> <<115, 116, 97, 98, 108, 101>>,
          secret |-> <<107>>, ip1 |-> <<49>>, ip2 |-> <<50>>, ua |-> <<109>>,
          bot |-> <<66, 111, 116>>]
ROTATION_SEED_SECRET == Chars["secret"]
STICKY_FINGERPRINT_SALT == ROTATION_SEED_SECRET

RotationModes == {"ROUND_ROBIN_SHUFFLED", "RANDOM_NO_REPEAT_EPOCH", "WEIGHTED"}
NoRow == -1
NoResult == [phone |-> "none", phoneId |-> NoPhone, source |-> "none"]
NoReply == [status |-> 0, phone |-> "none", phoneId |-> NoPhone]
NoRequest == [userAgent |-> <<>>, overrideKey |-> "undefined", phone |-> "undefined",
              forcePreview |-> FALSE,
              forceRedirect |-> FALSE]
\* the visitors: [ip, userAgent]
Visitors == {[ip |-> Chars["ip1"], userAgent |-> Chars["ua"]],
             [ip |-> Chars["ip2"], userAgent |-> Chars["ua"]]}

(***************************************************************************)
(* lib/rotation: time buckets, seeds and fingerprints.                     *)
(***************************************************************************)
\* the UTC calendar time `hour` hours after the start of the clock at 22:00
\* on 2025-12-31: getUTCFullYear(), getUTCMonth() (0-based), getUTCDate()
\* and getUTCHours()
UtcDateAt(hour) ==
    LET day == (22 + hour) \div 24
    IN  IF day = 0
        THEN [year |-> 2025, month |-> 11, date |-> 31, hours |-> (22 + hour) % 24]
        ELSE [year |-> 2026, month |-> 0, date |-> day, hours |-> (22 + hour) % 24]

\* new Date()
UtcDate == UtcDateAt(now)

\* `${year}-${month}-${date}`, for 'hour' followed by `-${hours}`
TimeBucketOf(date, mode) ==
    LET day == DecimalString(date.year) \o Hyphen \o DecimalString(date.month)
               \o Hyphen \o DecimalString(date.date)
    IN  IF mode = "hour" THEN day \o Hyphen \o DecimalString(date.hours)
        ELSE day

getTimeBucket(mode) == TimeBucketOf(UtcDate, mode)

\* `${linkId}:${timeBucket}:${secret}`
SeedInput(linkId, timeBucket, secret) ==
    linkId \o Colon \o timeBucket \o Colon \o secret

\* a fingerprint that leaves the salt out
FingerprintInputUnsalted(ip, userAgent, linkId, salt) ==
    ip \o Colon \o userAgent \o Colon \o linkId

\* a fingerprint that leaves the user agent out
FingerprintInputWithoutUserAgent(ip, userAgent, linkId, salt) ==
    ip \o Colon \o linkId \o Colon \o salt

\* `${ip}:${userAgent}:${linkId}:${salt}`
FingerprintInput(ip, userAgent, linkId, salt) ==
    ip \o Colon \o userAgent \o Colon \o linkId \o Colon \o salt

\* visitors of one campaign whose address (an IPv6 address, or whatever the
\* X-Forwarded-For header holds) or user agent holds the ':' of the template
DelimiterArgs ==
    [ip : {Chars["ip1"], Chars["ip1"] \o Colon \o Chars["ua"]},
     userAgent : {Chars["ua"], Chars["ua"] \o Colon \o Chars["ua"]},
     linkId : {Chars["L1"]}, salt : {STICKY_FINGERPRINT_SALT}]

\* the arguments of the generateFingerprint calls of the hash specification
FingerprintArgs ==
    [ip : {<<>>, Chars["ip1"], Chars["ip2"]}, userAgent : {<<>>, Chars["ua"]},
     linkId : {<<>>, Chars["L1"]}, salt : {<<>>, STICKY_FINGERPRINT_SALT}]
    \cup DelimiterArgs

\* the strings the model hashes: the fingerprints of the visitors, the
\* seeds of the campaigns at every hour of the clock, and the fingerprints
\* of the hash specification
KnownStrings ==
    {FingerprintInput(v.ip, v.userAgent, Chars[l], STICKY_FINGERPRINT_SALT) :
        v \in Visitors, l \in Links}
    \cup {SeedInput(Chars[l], bucket, ROTATION_SEED_SECRET) :
             l \in Links,
             bucket \in {Chars["stable"]}
                        \cup {TimeBucketOf(UtcDateAt(hour), "day") : hour \in 0..MaxTime}}
    \cup {FingerprintInput(a.ip, a.userAgent, a.linkId, a.salt) : a \in FingerprintArgs}

\* their digests, computed once
KnownDigests == {<<str, Sha256Hex(str)>> : str \in KnownStrings}

\* createHash('sha256').update(str).digest('hex'), looked up among the
\* digests computed
Digest(str) == (CHOOSE known \in KnownDigests : known[1] = str)[2]

generateShuffleSeed(linkId, timeBucket, secret) ==
    Digest(SeedInput(linkId, timeBucket, secret))

generateFingerprint(ip, userAgent, linkId, salt) ==
    Digest(FingerprintInput(ip, userAgent, linkId, salt))

(***************************************************************************)
(* lib/rotation: stableShuffle and selectPhone.                             *)
(***************************************************************************)
\* the rolling hash of the seed string, from character p on (the type test
\* has h evaluated before the next iteration)
RECURSIVE SeedHash(_, _, _)
SeedHash(seed, p, h) ==
    IF p > Len(seed) \/ h \notin Int THEN h
    ELSE SeedHash(seed, p + 1, HashStep(h, seed[p]))

\* seedNum after the loop over each seed the model generates, computed once
KnownSeedNums == {<<known[2], SeedHash(known[2], 1, 0)>> : known \in KnownDigests}

\* seedNum after the loop over the seed: looked up for a generated seed,
\* computed for any other
SeedNum(seed) ==
    LET known == {k \in KnownSeedNums : k[1] = seed}
    IN  IF known = {} THEN SeedHash(seed, 1, 0)
        ELSE (CHOOSE k \in known : TRUE)[2]

\* result[i] = result[j] without the write to result[j]
SwapSlotsCopy(result, i, j) ==
    IF j + 1 <= Len(result)
    THEN SubSeq(result, 1, i) \o <<result[j + 1]>> \o SubSeq(result, i + 2, Len(result))
    ELSE result

\* [result[i], result[j]] = [result[j], result[i]] on 0-based indices; a write
\* beyond the end grows the array
SwapSlots(result, i, j) ==
    LET ext == IF j + 1 > Len(result)
               THEN result \o [k \in 1..(j + 1 - Len(result)) |-> Undefined]
               ELSE result
        a   == IF i < j THEN i ELSE j
        b   == IF i < j THEN j ELSE i
    IN  IF a = b THEN ext
        ELSE SubSeq(ext, 1, a) \o <<ext[b + 1]>> \o SubSeq(ext, a + 2, b)
             \o <<ext[a + 1]>> \o SubSeq(ext, b + 2, Len(ext))

\* the Fisher-Yates loop: for (i = length - 1; i > 0; i--) (the type test has
\* s evaluated before the next iteration)
RECURSIVE FisherYates(_, _, _)
FisherYates(result, s, i) ==
    IF i <= 0 \/ s \notin Int THEN result
    ELSE LET s1 == LcgStep(s)
         IN  FisherYates(SwapSlots(result, i, RandomIndex(s1, i + 1)), s1, i - 1)

\* a shuffle whose generator starts from the clock instead of 0
stableShuffleTimed(items, seed) ==
    IF Len(items) <= 1 THEN items
    ELSE FisherYates(items, SeedHash(seed, 1, now), Len(items) - 1)

stableShuffle(items, seed) ==
    IF Len(items) <= 1 THEN items
    ELSE FisherYates(items, SeedNum(seed), Len(items) - 1)

\* const result = items: the loop writes the caller's array
stableShuffleInPlace(items, seed) ==
    [items |-> stableShuffle(items, seed), result |-> stableShuffle(items, seed),
     fresh |-> FALSE]

\* the arrays after stableShuffle(items, seed): [...items] makes the array
\* that the loop writes and the function returns (also for length <= 1);
\* the caller's array is only read
stableShuffleArrays(items, seed) ==
    [items |-> items, result |-> stableShuffle(items, seed), fresh |-> TRUE]

\* JavaScript's %: the result has the sign of the dividend
JsRem(a, b) == IF a >= 0 THEN a % b ELSE -((-a) % b)

\* shuffled[counter - 1] without the modulo: undefined beyond the end
PickByCounterUnwrapped(shuffled, counter) ==
    IF counter >= 1 /\ counter <= Len(shuffled) THEN shuffled[counter] ELSE Undefined

\* shuffled[idx >= 0 ? idx : 0] with idx = (counter - 1) % shuffled.length
PickByCounter(shuffled, counter) ==
    LET idx == JsRem(counter - 1, Len(shuffled))
    IN  shuffled[(IF idx >= 0 THEN idx ELSE 0) + 1]

\* an expansion that takes every entry once, whatever its weight
ExpandOnce(phones, p) == SubSeq(phones, p, Len(phones))

\* the pool with every entry repeated weight times
RECURSIVE Expand(_, _)
Expand(phones, p) ==
    IF p > Len(phones) THEN <<>>
    ELSE [k \in 1..phones[p].weight |-> phones[p]] \o Expand(phones, p + 1)

\* a selectPhone whose WEIGHTED case indexes with counter % length
selectPhoneWeightedByCounter(phones, counter, mode, shuffleSeed) ==
    IF Len(phones) = 0 THEN NullEntry
    ELSE IF Len(phones) = 1 THEN phones[1]
    ELSE IF mode \in {"ROUND_ROBIN_SHUFFLED", "RANDOM_NO_REPEAT_EPOCH"}
         THEN PickByCounter(stableShuffle(phones, shuffleSeed), counter)
    ELSE IF mode = "WEIGHTED"
         THEN PickByCounter(stableShuffle(Expand(phones, 1), shuffleSeed), counter + 1)
    ELSE phones[1]

\* a selectPhone without the default case of the switch
selectPhoneKnownModes(phones, counter, mode, shuffleSeed) ==
    IF Len(phones) = 0 THEN NullEntry
    ELSE IF Len(phones) = 1 THEN phones[1]
    ELSE IF mode \in {"ROUND_ROBIN_SHUFFLED", "RANDOM_NO_REPEAT_EPOCH"}
         THEN PickByCounter(stableShuffle(phones, shuffleSeed), counter)
    ELSE IF mode = "WEIGHTED"
         THEN PickByCounter(stableShuffle(Expand(phones, 1), shuffleSeed), counter)
    ELSE Undefined

selectPhone(phones, counter, mode, shuffleSeed) ==
    IF Len(phones) = 0 THEN NullEntry
    ELSE IF Len(phones) = 1 THEN phones[1]
    ELSE IF mode \in {"ROUND_ROBIN_SHUFFLED", "RANDOM_NO_REPEAT_EPOCH"}
         THEN PickByCounter(stableShuffle(phones, shuffleSeed), counter)
    ELSE IF mode = "WEIGHTED"
         THEN IF \A k \in 1..Len(phones) : phones[k].weight = 1
              THEN PickByCounter(stableShuffle(phones, shuffleSeed), counter)
              ELSE PickByCounter(stableShuffle(Expand(phones, 1), shuffleSeed), counter)
    ELSE phones[1]

\* a link_phones row as selectPhoneForClick maps it (addPhones writes weight 1)
PhoneEntry(p) == [id |-> p, phoneNumber |-> PhoneNumber[p], weight |-> 1]

\* an invocation: pc is its position, ops the storage calls it has made,
\* failed the storage call of it that raised, pinned the phone the stored
\* unexpired mapping of its fingerprint named when it was called
IdleInv ==
    [pc |-> "idle", kind |-> "none", link |-> "none", fp |-> <<>>, isBot |-> FALSE,
     activePhones |-> <<>>, mapping |-> NoPhone, counter |-> 0, selected |-> NoPhone,
     result |-> NoResult, ops |-> <<>>, failed |-> "none", pinned |-> NoPhone,
     request |-> NoRequest, reply |-> NoReply]

(***************************************************************************)
(* db/phones: the queries, as functions of the stored data.                *)
(***************************************************************************)
\* the status filter left out: every row of the campaign
getActivePhonesForLinkAnyStatus(linkId) ==
    SelectSeq(PhoneOrder, LAMBDA p : PhoneLink[p] = linkId /\ phoneStatus[p] # "NONE")

\* findMany({where: {linkId, status: 'ACTIVE'}, orderBy: {createdAt: 'asc'}})
getActivePhonesForLink(linkId) ==
    SelectSeq(PhoneOrder, LAMBDA p : PhoneLink[p] = linkId /\ phoneStatus[p] = "ACTIVE")

\* the expiry compared the wrong way round: expiresAt: {lt: new Date()}
getStickyMappingExpired(linkId, fingerprintHash) ==
    {m \in fpMap : /\ m.linkId = linkId
                   /\ m.fingerprintHash = fingerprintHash
                   /\ m.expiresAt < now}

\* the expiry compared with gte: a mapping that expires now is still found
getStickyMappingNotBefore(linkId, fingerprintHash) ==
    {m \in fpMap : /\ m.linkId = linkId
                   /\ m.fingerprintHash = fingerprintHash
                   /\ m.expiresAt >= now}

\* findFirst({where: {linkId, fingerprintHash, expiresAt: {gt: new Date()}}})
getStickyMapping(linkId, fingerprintHash) ==
    {m \in fpMap : /\ m.linkId = linkId
                   /\ m.fingerprintHash = fingerprintHash
                   /\ m.expiresAt > now}

\* create without the update branch: an existing row stays as it is
setStickyMappingInsertOnly(linkId, fingerprintHash, phoneId, ttlHours) ==
    IF \E m \in fpMap : m.linkId = linkId /\ m.fingerprintHash = fingerprintHash
    THEN fpMap
    ELSE fpMap \cup {[linkId |-> linkId, fingerprintHash |-> fingerprintHash,
                      phoneId |-> phoneId, expiresAt |-> now + ttlHours]}

\* create without the unique key: a second row of the fingerprint is added
setStickyMappingCreate(linkId, fingerprintHash, phoneId, ttlHours) ==
    fpMap \cup {[linkId |-> linkId, fingerprintHash |-> fingerprintHash,
                 phoneId |-> phoneId, expiresAt |-> now + ttlHours]}

\* an upsert whose update branch writes the phone and leaves the expiry
setStickyMappingKeepExpiry(linkId, fingerprintHash, phoneId, ttlHours) ==
    LET old == {m \in fpMap : m.linkId = linkId /\ m.fingerprintHash = fingerprintHash}
    IN  (fpMap \ old)
        \cup {[linkId |-> linkId, fingerprintHash |-> fingerprintHash,
               phoneId |-> phoneId,
               expiresAt |-> IF old = {} THEN now + ttlHours
                             ELSE (CHOOSE m \in old : TRUE).expiresAt]}

\* upsert on the unique key (linkId, fingerprintHash)
setStickyMapping(linkId, fingerprintHash, phoneId, ttlHours) ==
    {m \in fpMap : ~(m.linkId = linkId /\ m.fingerprintHash = fingerprintHash)}
    \cup {[linkId |-> linkId, fingerprintHash |-> fingerprintHash,
           phoneId |-> phoneId, expiresAt |-> now + ttlHours]}

\* FOREIGN KEY ("phone_id") REFERENCES "link_phones"("id"): a row of
\* fingerprint_map can be written only for a phone that exists
fingerprint_map_phone_id_fkey(phoneId) == phoneStatus[phoneId] # "NONE"

\* a delete that leaves the rows of fingerprint_map that reference the phone
deletePhoneNoCascade(phoneId) ==
    [link_phones |-> [phoneStatus EXCEPT ![phoneId] = "NONE"],
     fingerprint_map |-> fpMap]

\* prisma.linkPhone.delete({where: {id: phoneId}}): the row goes, and with it
\* the rows of fingerprint_map that reference it (ON DELETE CASCADE)
deletePhone(phoneId) ==
    [link_phones |-> [phoneStatus EXCEPT ![phoneId] = "NONE"],
     fingerprint_map |-> {m \in fpMap : m.phoneId # phoneId}]

\* findUnique({where: {id}, select: {status}})?.status === 'ACTIVE'
isPhoneActive(phoneId) == phoneStatus[phoneId] = "ACTIVE"

\* one counter for all campaigns: the highest counter of the table plus one
incrementRotationCounterShared(linkId) ==
    1 + CHOOSE c \in {0} \cup {rotation[l] : l \in Links} :
            \A l \in Links : rotation[l] <= c

\* ON CONFLICT DO NOTHING: the existing counter is returned as it is
incrementRotationCounterNoUpdate(linkId) ==
    IF rotation[linkId] = NoRow THEN 1 ELSE rotation[linkId]

\* INSERT ... VALUES (linkId, 1) ON CONFLICT DO UPDATE SET counter = counter + 1
\* RETURNING counter: the counter the statement leaves in the row
incrementRotationCounter(linkId) ==
    IF rotation[linkId] = NoRow THEN 1 ELSE rotation[linkId] + 1

\* the filter with lte: a mapping that expires now is deleted as well
cleanupExpiredMappingsNotAfter == {m \in fpMap : ~(m.expiresAt <= now)}

\* a reset that writes 1: the next increment returns 2
resetRotationCounterToOne(linkId) == [rotation EXCEPT ![linkId] = 1]

\* linkRotation.upsert({where: {linkId}, update: {counter: 0},
\* create: {linkId, counter: 0}})
resetRotationCounter(linkId) == [rotation EXCEPT ![linkId] = 0]

\* deleteMany({where: {expiresAt: {lt: new Date()}}})
cleanupExpiredMappings == {m \in fpMap : ~(m.expiresAt < now)}

(***************************************************************************)
(* services/phoneSelector: selectPhoneForClick.  Every action is one       *)
(* storage call together with the code that runs up to the next await.     *)
(***************************************************************************)
\* whether a storage call may raise an error now
Outcomes == IF budget.faults > 0 THEN {TRUE, FALSE} ELSE {TRUE}

\* whether Math.random() < 0.01 may start a sweep now
SweepChoices == IF budget.sweeps > 0 THEN {TRUE, FALSE} ELSE {FALSE}

Faulted == [budget EXCEPT !.faults = @ - 1]

\* the invocation has returned or thrown: its locals are gone
Returned(me, result) ==
    [me EXCEPT !.pc = "done", !.result = result, !.activePhones = <<>>,
               !.mapping = NoPhone, !.selected = NoPhone]

Thrown(me, call) ==
    [me EXCEPT !.pc = "threw", !.failed = call, !.activePhones = <<>>,
               !.mapping = NoPhone, !.selected = NoPhone]

DefaultResult(l, source) ==
    [phone |-> link[l].defaultPhone, phoneId |-> NoPhone, source |-> source]

\* a result that names the phone number without the entry's id
PhoneResultWithoutId(p, source) ==
    [phone |-> PhoneNumber[p], phoneId |-> NoPhone, source |-> source]

PhoneResult(p, source) ==
    [phone |-> PhoneNumber[p], phoneId |-> p, source |-> source]

\* the phone of the stored unexpired mapping of a fingerprint, if any
StoredPhone(l, fp) ==
    IF \E m \in fpMap : m.linkId = l /\ m.fingerprintHash = fp /\ m.expiresAt > now
    THEN (CHOOSE m \in fpMap : m.linkId = l /\ m.fingerprintHash = fp
                               /\ m.expiresAt > now).phoneId
    ELSE NoPhone

\* the slots are used in order, at most budget.concurrent clicks at a time
InFlight == {r \in DOMAIN inv : inv[r].pc \notin {"idle", "done", "threw", "replied"}}

CanStart(r) ==
    /\ inv[r].pc = "idle"
    /\ IF r = 1 THEN TRUE ELSE inv[r - 1].pc # "idle"
    /\ Cardinality(InFlight) < budget.concurrent

\* the bot check left out
BotCheckSkipped(me) == [me EXCEPT !.pc = "getActive"]

\* if (isBot) return {phone: link.defaultPhone, phoneId: null, source: 'default'}
BotCheck(me) ==
    IF me.isBot THEN Returned(me, DefaultResult(me.link, "default"))
    ELSE [me EXCEPT !.pc = "getActive"]

\* selectPhoneForClick(ctx) is entered
Entered(kind, l, ip, userAgent, bot) ==
    LET fp == generateFingerprint(ip, userAgent, Chars[l], STICKY_FINGERPRINT_SALT)
    IN  [IdleInv EXCEPT !.kind = kind, !.link = l, !.isBot = bot, !.fp = fp,
                        !.pinned = StoredPhone(l, fp)]

\* a call of selectPhoneForClick(ctx) up to its first await: the bot check
SelectStart(r) ==
    /\ CanStart(r)
    /\ \E l \in budget.links, v \in budget.visitors, bot \in budget.bots :
         inv' = [inv EXCEPT ![r] =
                   BotCheck(Entered("select", l, v.ip, v.userAgent, bot))]
    /\ UNCHANGED <<link, phoneStatus, rotation, fpMap, totalClicks, now, sweeps,
                   statsCalls, budget, pure>>

\* the empty-pool check left out
AfterPoolFetchUnchecked(me, ap) ==
    [me EXCEPT !.activePhones = ap,
               !.pc = IF link[me.link].stickyEnabled THEN "getSticky" ELSE "increment"]

\* the sticky lookup made whatever link.stickyEnabled says
AfterPoolFetchAlwaysSticky(me, ap) ==
    IF Len(ap) = 0
    THEN Returned(me, DefaultResult(me.link, "default"))
    ELSE [me EXCEPT !.activePhones = ap, !.pc = "getSticky"]

\* if (activePhones.length === 0) return {phone: link.defaultPhone,
\* phoneId: null, source: 'default'}
AfterPoolFetch(me, ap) ==
    IF Len(ap) = 0
    THEN Returned(me, DefaultResult(me.link, "default"))
    ELSE [me EXCEPT !.activePhones = ap,
                    !.pc = IF link[me.link].stickyEnabled
                           THEN "getSticky" ELSE "increment"]

\* await getActivePhonesForLink(link.id), the empty-pool check
GetActivePhones(r) ==
    /\ inv[r].pc = "getActive"
    /\ \E ok \in Outcomes :
         LET l  == inv[r].link
             ap == getActivePhonesForLink(l)
             me == [inv[r] EXCEPT !.ops = Append(@, "getActivePhonesForLink")]
         IN  IF ~ok
             THEN /\ inv' = [inv EXCEPT ![r] = Thrown(me, "getActivePhonesForLink")]
                  /\ budget' = Faulted
             ELSE /\ inv' = [inv EXCEPT ![r] = AfterPoolFetch(me, ap)]
                  /\ UNCHANGED budget
    /\ UNCHANGED <<link, phoneStatus, rotation, fpMap, totalClicks, now, sweeps,
                   statsCalls, pure>>

\* await getStickyMapping(link.id, fingerprintHash)
GetStickyMapping(r) ==
    /\ inv[r].pc = "getSticky"
    /\ \E ok \in Outcomes :
         LET found == getStickyMapping(inv[r].link, inv[r].fp)
             me    == [inv[r] EXCEPT !.ops = Append(@, "getStickyMapping")]
         IN  IF ~ok
             THEN /\ inv' = [inv EXCEPT ![r] = Thrown(me, "getStickyMapping")]
                  /\ budget' = Faulted
             ELSE /\ inv' = [inv EXCEPT ![r] =
                       IF found = {}
                       THEN [me EXCEPT !.pc = "increment"]
                       ELSE [me EXCEPT !.pc = "isActive",
                                       !.mapping = (CHOOSE m \in found : TRUE).phoneId]]
                  /\ UNCHANGED budget
    /\ UNCHANGED <<link, phoneStatus, rotation, fpMap, totalClicks, now, sweeps,
                   statsCalls, pure>>

\* a sticky hit that also consumes a counter value
StickyReturnCounting(r, me, p) ==
    /\ inv' = [inv EXCEPT ![r] =
                 Returned([me EXCEPT !.ops = Append(@, "incrementRotationCounter")],
                          PhoneResult(p, "sticky"))]
    /\ rotation' = [rotation EXCEPT ![me.link] = incrementRotationCounter(me.link)]

\* return {phone: ..., phoneId: stickyMapping.phoneId, source: 'sticky'}
StickyReturn(r, me, p) ==
    /\ inv' = [inv EXCEPT ![r] = Returned(me, PhoneResult(p, "sticky"))]
    /\ UNCHANGED rotation

\* await isPhoneActive(stickyMapping.phoneId), activePhones.find
IsPhoneActive(r) ==
    /\ inv[r].pc = "isActive"
    /\ \E ok \in Outcomes :
         LET me == [inv[r] EXCEPT !.ops = Append(@, "isPhoneActive")]
             p  == inv[r].mapping
         IN  IF ~ok
             THEN /\ inv' = [inv EXCEPT ![r] = Thrown(me, "isPhoneActive")]
                  /\ budget' = Faulted
                  /\ UNCHANGED rotation
             ELSE /\ IF isPhoneActive(p)
                        /\ \E k \in 1..Len(inv[r].activePhones) :
                               inv[r].activePhones[k] = p
                     THEN StickyReturn(r, me, p)
                     ELSE /\ inv' = [inv EXCEPT ![r] = [me EXCEPT !.pc = "increment"]]
                          /\ UNCHANGED rotation
                  /\ UNCHANGED budget
    /\ UNCHANGED <<link, phoneStatus, fpMap, totalClicks, now, sweeps,
                   statsCalls, pure>>

\* the stable seed for every mode
ShuffleSeedStable(l) ==
    generateShuffleSeed(Chars[l], Chars["stable"], ROTATION_SEED_SECRET)

\* the seed of the campaign's rotation mode
ShuffleSeed(l) ==
    IF link[l].rotationMode = "RANDOM_NO_REPEAT_EPOCH"
    THEN generateShuffleSeed(Chars[l], getTimeBucket("day"), ROTATION_SEED_SECRET)
    ELSE generateShuffleSeed(Chars[l], Chars["stable"], ROTATION_SEED_SECRET)

\* a write-back whose error is not caught
AfterWriteBackUncaught(me, ok) ==
    IF ok THEN Returned(me, PhoneResult(me.selected, "rotation"))
    ELSE Thrown(me, "setStickyMapping")

\* a write-back that is tried again after an error
AfterWriteBackRetried(me, ok) ==
    IF ok THEN Returned(me, PhoneResult(me.selected, "rotation"))
    ELSE [me EXCEPT !.failed = "none"]

\* try { await setStickyMapping(...) } catch (err) { console.error(...) },
\* then return {phone: selectedPhone.phoneNumber, ..., source: 'rotation'}
AfterWriteBack(me, ok) == Returned(me, PhoneResult(me.selected, "rotation"))

\* a sweep that is awaited and whose error is not caught
ReturnRotationAwaitingSweep(r, me, swept, ok) ==
    /\ inv' = [inv EXCEPT ![r] =
                 IF swept THEN Thrown(me, "cleanupExpiredMappings")
                 ELSE AfterWriteBack(me, ok)]
    /\ UNCHANGED sweeps
    /\ budget' = [budget EXCEPT !.sweeps = IF swept THEN @ - 1 ELSE @,
                                !.faults = IF ok THEN @ ELSE @ - 1]

\* the end of a rotation: the sweep that may be started, and the return
ReturnRotation(r, me, swept, ok) ==
    /\ inv' = [inv EXCEPT ![r] = AfterWriteBack(me, ok)]
    /\ sweeps' = IF swept THEN sweeps + 1 ELSE sweeps
    /\ budget' = [budget EXCEPT !.sweeps = IF swept THEN @ - 1 ELSE @,
                                !.faults = IF ok THEN @ ELSE @ - 1]

\* await incrementRotationCounter(link.id), the seed, selectPhone, and with
\* sticky disabled the rest of the function.  A statement that raises an
\* error has taken effect or not
IncrementCounter(r) ==
    /\ inv[r].pc = "increment"
    /\ \E ok \in Outcomes, swept \in SweepChoices :
         LET l   == inv[r].link
             c   == incrementRotationCounter(l)
             sel == selectPhone([k \in 1..Len(inv[r].activePhones) |->
                                    PhoneEntry(inv[r].activePhones[k])],
                                c, link[l].rotationMode, ShuffleSeed(l))
             me  == [inv[r] EXCEPT !.ops = Append(@, "incrementRotationCounter")]
         IN  IF ~ok
             THEN /\ ~swept
                  /\ inv' = [inv EXCEPT ![r] = Thrown(me, "incrementRotationCounter")]
                  /\ budget' = Faulted
                  /\ rotation' \in {rotation, [rotation EXCEPT ![l] = c]}
                  /\ UNCHANGED sweeps
             ELSE /\ rotation' = [rotation EXCEPT ![l] = c]
                  /\ IF sel \in {NullEntry, Undefined}
                     THEN /\ ~swept
                          /\ inv' = [inv EXCEPT ![r] =
                                Returned([me EXCEPT !.counter = c],
                                         DefaultResult(l, "fallback"))]
                          /\ UNCHANGED <<sweeps, budget>>
                     ELSE IF link[l].stickyEnabled
                     THEN /\ ~swept
                          /\ inv' = [inv EXCEPT ![r] =
                                [me EXCEPT !.pc = "setSticky", !.counter = c,
                                           !.selected = sel.id]]
                          /\ UNCHANGED <<sweeps, budget>>
                     ELSE ReturnRotation(r, [me EXCEPT !.counter = c,
                                                       !.selected = sel.id], swept, TRUE)
    /\ UNCHANGED <<link, phoneStatus, fpMap, totalClicks, now, statsCalls, pure>>

\* await setStickyMapping(...) inside try/catch, and the rest of the function.
\* The upsert of a row whose phone is gone violates the foreign key: it raises
\* an error that the catch takes, and writes nothing
SetStickyMapping(r) ==
    /\ inv[r].pc = "setSticky"
    /\ \E ok \in Outcomes, swept \in SweepChoices :
         LET l       == inv[r].link
             written == setStickyMapping(l, inv[r].fp, inv[r].selected,
                                         link[l].stickyTtlHours)
             me      == [inv[r] EXCEPT !.ops = Append(@, "setStickyMapping"),
                                       !.failed =
                                           IF ok /\ fingerprint_map_phone_id_fkey(
                                                        inv[r].selected)
                                           THEN @ ELSE "setStickyMapping"]
         IN  /\ fpMap' \in (IF ~fingerprint_map_phone_id_fkey(inv[r].selected)
                            THEN {fpMap}
                            ELSE IF ok THEN {written} ELSE {fpMap, written})
             /\ ReturnRotation(r, me, swept, ok)
    /\ UNCHANGED <<link, phoneStatus, rotation, totalClicks, now, statsCalls, pure>>

\* cleanupExpiredMappings().catch(...): the sweep runs on its own
CleanupSweep ==
    /\ sweeps > 0
    /\ sweeps' = sweeps - 1
    /\ \E ok \in Outcomes :
         /\ fpMap' = IF ok THEN cleanupExpiredMappings ELSE fpMap
         /\ budget' = IF ok THEN budget ELSE Faulted
    /\ UNCHANGED <<link, phoneStatus, rotation, totalClicks, now, inv, statsCalls, pure>>

(***************************************************************************)
(* routes/redirect: handleRedirect.                                        *)
(***************************************************************************)
\* the catch block left without its assignments
AfterSelectionNoDefault(me) ==
    IF me.pc = "threw" THEN [phone |-> "undefined", phoneId |-> NoPhone]
    ELSE [phone |-> me.result.phone, phoneId |-> me.result.phoneId]

\* try { selection = await selectPhoneForClick(...) } catch (err) {...}
AfterSelection(me) ==
    IF me.pc = "threw" THEN [phone |-> link[me.link].defaultPhone, phoneId |-> NoPhone]
    ELSE [phone |-> me.result.phone, phoneId |-> me.result.phoneId]

\* the reply of a found campaign: the preview page or the redirect
\* (recordClick and the link statistics it writes are outside the model)
Replied(me, sel, botDetected) ==
    [me EXCEPT !.pc = "replied",
               !.reply = [status |-> IF me.request.forcePreview
                                        \/ (botDetected /\ ~me.request.forceRedirect)
                                     THEN 200 ELSE 302,
                          phone |-> sel.phone, phoneId |-> sel.phoneId]]

\* a click that starts recordPhoneClick twice
StatsStartedTwice(sel, botDetected) ==
    IF sel.phoneId # NoPhone /\ ~botDetected
    THEN [statsCalls EXCEPT ![sel.phoneId] = @ + 2]
    ELSE statsCalls

\* recordPhoneClick(phoneId) is started when phoneId && !botDetected
StatsStarted(sel, botDetected) ==
    IF sel.phoneId # NoPhone /\ ~botDetected
    THEN [statsCalls EXCEPT ![sel.phoneId] = @ + 1]
    ELSE statsCalls

\* the requests: the user agent, the query parameters override_key and
\* phone ("undefined" when absent), /preview/:slug, and force=1
Requests ==
    [userAgent : budget.agents, overrideKey : budget.keys, phone : budget.phones,
     forcePreview : BOOLEAN, forceRedirect : BOOLEAN]

\* an override check that does not ask whether a key is configured
hasValidOverrideKeyUnconfigured(req) == req.overrideKey = budget.overrideKey

\* PHONE_OVERRIDE_KEY && query.override_key === PHONE_OVERRIDE_KEY, with
\* PHONE_OVERRIDE_KEY = process.env.PHONE_OVERRIDE_KEY || ''
hasValidOverrideKey(req) ==
    budget.overrideKey # "" /\ req.overrideKey = budget.overrideKey

\* handleRedirect from its entry to the first await of the selection: the
\* query check (400), getActiveLink (404), the override and the bot branch
StartRedirect(r) ==
    /\ CanStart(r)
    /\ \E valid \in BOOLEAN, slug \in budget.links \cup {"missing"},
          v \in budget.visitors, req \in Requests :
         LET botDetected == isBot(req.userAgent)
             me == [IdleInv EXCEPT !.kind = "redirect", !.link = slug]
         IN  IF ~valid
             THEN /\ inv' = [inv EXCEPT ![r] =
                        [me EXCEPT !.pc = "replied", !.reply.status = 400]]
                  /\ UNCHANGED statsCalls
             ELSE IF slug \notin Links
             THEN /\ inv' = [inv EXCEPT ![r] =
                        [me EXCEPT !.pc = "replied", !.reply.status = 404]]
                  /\ UNCHANGED statsCalls
             ELSE IF hasValidOverrideKey(req) /\ req.phone \notin {"undefined", ""}
             THEN /\ inv' = [inv EXCEPT ![r] =
                        Replied([me EXCEPT !.request = req],
                                [phone |-> req.phone, phoneId |-> NoPhone],
                                botDetected)]
                  /\ UNCHANGED statsCalls
             ELSE IF botDetected
             THEN /\ inv' = [inv EXCEPT ![r] =
                        Replied([me EXCEPT !.request = req],
                                [phone |-> link[slug].defaultPhone,
                                 phoneId |-> NoPhone], botDetected)]
                  /\ UNCHANGED statsCalls
             ELSE /\ inv' = [inv EXCEPT ![r] =
                        [BotCheck(Entered("redirect", slug, v.ip, req.userAgent,
                                          botDetected))
                           EXCEPT !.request = req]]
                  /\ UNCHANGED statsCalls
    /\ UNCHANGED <<link, phoneStatus, rotation, fpMap, totalClicks, now, sweeps,
                   budget, pure>>

\* the selection has returned or thrown: the rest of handleRedirect
Respond(r) ==
    /\ inv[r].kind = "redirect"
    /\ inv[r].pc \in {"done", "threw"}
    /\ LET sel == AfterSelection(inv[r])
           botDetected == isBot(inv[r].request.userAgent)
       IN  /\ inv' = [inv EXCEPT ![r] = Replied(inv[r], sel, botDetected)]
           /\ statsCalls' = StatsStarted(sel, botDetected)
    /\ UNCHANGED <<link, phoneStatus, rotation, fpMap, totalClicks, now, sweeps,
                   budget, pure>>

\* recordPhoneClick(phoneId): incrementPhoneStats inside try/catch; the update
\* of a row that is gone raises an error
RecordPhoneClick(p) ==
    /\ statsCalls[p] > 0
    /\ statsCalls' = [statsCalls EXCEPT ![p] = @ - 1]
    /\ \E ok \in Outcomes :
         /\ totalClicks' = IF ok /\ phoneStatus[p] # "NONE"
                           THEN [totalClicks EXCEPT ![p] = @ + 1]
                           ELSE totalClicks
         /\ budget' = IF ok THEN budget ELSE Faulted
    /\ UNCHANGED <<link, phoneStatus, rotation, fpMap, now, inv, sweeps, pure>>

(***************************************************************************)
(* routes/admin: the phone pool operations, and the clock.                 *)
(***************************************************************************)
AdminDone == [budget EXCEPT !.admin = @ - 1]

\* POST /admin/:slug/phones/:phoneId/pause: updatePhoneStatus(phoneId, 'PAUSED')
PausePhone(p) ==
    /\ budget.admin > 0
    /\ PhoneLink[p] \in budget.links
    /\ phoneStatus[p] = "ACTIVE"
    /\ phoneStatus' = [phoneStatus EXCEPT ![p] = "PAUSED"]
    /\ budget' = AdminDone
    /\ UNCHANGED <<link, rotation, fpMap, totalClicks, now, inv, sweeps,
                   statsCalls, pure>>

\* POST /admin/:slug/phones/:phoneId/unpause: updatePhoneStatus(phoneId, 'ACTIVE')
UnpausePhone(p) ==
    /\ budget.admin > 0
    /\ PhoneLink[p] \in budget.links
    /\ phoneStatus[p] = "PAUSED"
    /\ phoneStatus' = [phoneStatus EXCEPT ![p] = "ACTIVE"]
    /\ budget' = AdminDone
    /\ UNCHANGED <<link, rotation, fpMap, totalClicks, now, inv, sweeps,
                   statsCalls, pure>>

\* POST /admin/:slug/phones/:phoneId/delete: deletePhone(phoneId); the rows of
\* fingerprint_map that reference the phone go with it (ON DELETE CASCADE)
DeletePhone(p) ==
    /\ budget.admin > 0
    /\ PhoneLink[p] \in budget.links
    /\ phoneStatus[p] # "NONE"
    /\ phoneStatus' = deletePhone(p).link_phones
    /\ fpMap' = deletePhone(p).fingerprint_map
    /\ budget' = AdminDone
    /\ UNCHANGED <<link, rotation, totalClicks, now, inv, sweeps, statsCalls, pure>>

\* POST /admin/:slug/phones: addPhones(link.id, phoneNumbers) creates the row
\* with status ACTIVE, weight 1 and no clicks.  The id of a new row is fresh:
\* the model gives it an id that no row and no click in flight or returned holds
AddPhone(p) ==
    /\ budget.admin > 0
    /\ PhoneLink[p] \in budget.links
    /\ phoneStatus[p] = "NONE"
    /\ statsCalls[p] = 0
    /\ \A m \in fpMap : m.phoneId # p
    /\ \A r \in DOMAIN inv :
          /\ p \notin {inv[r].mapping, inv[r].selected, inv[r].pinned,
                       inv[r].result.phoneId, inv[r].reply.phoneId}
          /\ \A k \in 1..Len(inv[r].activePhones) : inv[r].activePhones[k] # p
    /\ phoneStatus' = [phoneStatus EXCEPT ![p] = "ACTIVE"]
    /\ totalClicks' = [totalClicks EXCEPT ![p] = 0]
    /\ budget' = AdminDone
    /\ UNCHANGED <<link, rotation, fpMap, now, inv, sweeps, statsCalls, pure>>

\* updateLinkRotationConfig(linkId, {stickyEnabled}): the column is written
\* as given.  An invocation works on the link row it was called with, so the
\* model writes the column between invocations
UpdateLinkRotationConfig(l, stickyEnabled) ==
    /\ budget.admin > 0
    /\ l \in budget.links
    /\ InFlight = {}
    /\ link[l].stickyEnabled # stickyEnabled
    /\ link' = [link EXCEPT ![l].stickyEnabled = stickyEnabled]
    /\ budget' = AdminDone
    /\ UNCHANGED <<phoneStatus, rotation, fpMap, totalClicks, now, inv, sweeps,
                   statsCalls, pure>>

\* Reset Counter: await resetRotationCounter(linkId)
ResetRotationCounter(l) ==
    /\ budget.admin > 0
    /\ l \in budget.links
    /\ rotation' = resetRotationCounter(l)
    /\ budget' = AdminDone
    /\ UNCHANGED <<link, phoneStatus, fpMap, totalClicks, now, inv, sweeps,
                   statsCalls, pure>>

\* an hour passes
Tick ==
    /\ now < budget.hours
    /\ now' = now + 1
    /\ UNCHANGED <<link, phoneStatus, rotation, fpMap, totalClicks, inv, sweeps,
                   statsCalls, budget, pure>>

(***************************************************************************)
(* The specification of the selection engine: clicks on a campaign, admin  *)
(* operations on its pool, storage errors, sweeps and the clock.           *)
(***************************************************************************)
NoCall == [phones |-> <<>>, seed |-> <<>>, mode |-> "none", results |-> <<>>,
           calls |-> <<>>]

\* the rotation columns a campaign is created with
ColumnDefaults(l) ==
    [defaultPhone |-> DefaultPhone[l], rotationMode |-> "ROUND_ROBIN_SHUFFLED",
     stickyEnabled |-> FALSE, stickyTtlHours |-> TtlHours]

\* the rotation columns of a campaign: those of L1 are set by the admin, L2
\* keeps the column defaults
LinkConfigs(l) ==
    IF l = "L1"
    THEN [defaultPhone : {DefaultPhone[l]}, rotationMode : RotationModes,
          stickyEnabled : BOOLEAN, stickyTtlHours : {TtlHours}]
    ELSE {ColumnDefaults(l)}

\* the campaigns with their pools, before any click: no counter row, no
\* mapping, no statistics
Store(configs, pools, clicks, env) ==
    /\ link \in {f \in [Links -> UNION {configs[l] : l \in Links}] :
                    \A l \in Links : f[l] \in configs[l]}
    /\ phoneStatus \in pools
    /\ rotation = [l \in Links |-> NoRow]
    /\ fpMap = {}
    /\ totalClicks = [p \in PhoneIds |-> 0]
    /\ now = 0
    /\ inv \in {[r \in 1..n |-> IdleInv] : n \in clicks}
    /\ sweeps = 0
    /\ statsCalls = [p \in PhoneIds |-> 0]
    /\ budget = env

Fresh(configs, pools, clicks, env) ==
    /\ Store(configs, pools, clicks, env)
    /\ pure = NoCall

\* the pools of L1: p1 and p2 active and p3 active or paused, every phone
\* paused, and no phone at all
Pools ==
    {[p \in PhoneIds |-> IF p = "p3" THEN s ELSE "ACTIVE"] : s \in {"ACTIVE", "PAUSED"}}
    \cup {[p \in PhoneIds |-> IF PhoneLink[p] = "L1" THEN s ELSE "ACTIVE"] :
             s \in {"PAUSED", "NONE"}}

Init ==
    Fresh([l \in Links |-> LinkConfigs(l)], Pools, {MaxClicks},
          [admin |-> MaxAdminOps, faults |-> MaxFaults, sweeps |-> MaxSweeps,
           hours |-> MaxTime, concurrent |-> MaxConcurrent, links |-> {"L1"},
           visitors |-> Visitors, bots |-> BOOLEAN, agents |-> {}, keys |-> {},
           phones |-> {}, overrideKey |-> ""])

Next ==
    \/ \E r \in DOMAIN inv : SelectStart(r)
    \/ \E r \in DOMAIN inv : GetActivePhones(r)
    \/ \E r \in DOMAIN inv : GetStickyMapping(r)
    \/ \E r \in DOMAIN inv : IsPhoneActive(r)
    \/ \E r \in DOMAIN inv : IncrementCounter(r)
    \/ \E r \in DOMAIN inv : SetStickyMapping(r)
    \/ CleanupSweep
    \/ \E p \in PhoneIds : PausePhone(p)
    \/ \E p \in PhoneIds : UnpausePhone(p)
    \/ \E p \in PhoneIds : DeletePhone(p)
    \/ Tick

Spec == Init /\ [][Next]_vars

(***************************************************************************)
(* The specification of the pure functions: selectPhone is called with the *)
(* counters 1, 2, 3, ... on one pool, seed and mode.                       *)
(***************************************************************************)
RECURSIVE SumWeights(_, _)
SumWeights(phones, p) ==
    IF p > Len(phones) THEN 0 ELSE phones[p].weight + SumWeights(phones, p + 1)

\* the characters of the generated seeds: '0' and 'f'
SeedChars == {48, 102}

\* the generated seeds, and the seeds selectPhoneForClick computes
PureSeeds ==
    UNION {[1..n -> SeedChars] : n \in 0..MaxSeedLen}
    \cup {generateShuffleSeed(Chars[l], Chars["stable"], ROTATION_SEED_SECRET) :
             l \in Links}

PurePools ==
    UNION {{[k \in 1..n |-> [id |-> PhoneOrder[k],
                             phoneNumber |-> PhoneNumber[PhoneOrder[k]],
                             weight |-> w[k]]] : w \in [1..n -> 1..MaxWeight]} :
              n \in 0..MaxPool}

PureModes == RotationModes \cup {"UNKNOWN"}

\* the column defaults of every campaign
DefaultConfigs == [l \in Links |-> {ColumnDefaults(l)}]

NoEnv == [admin |-> 0, faults |-> 0, sweeps |-> 0, hours |-> 0, concurrent |-> 0,
          links |-> {}, visitors |-> {}, bots |-> {}, agents |-> {}, keys |-> {},
          phones |-> {}, overrideKey |-> ""]

InitPure ==
    /\ Store(DefaultConfigs, {[p \in PhoneIds |-> "ACTIVE"]}, {0}, NoEnv)
    /\ pure \in [phones : PurePools, seed : PureSeeds, mode : PureModes,
                 results : {<<>>}, calls : {<<>>}]

\* the counters after which the results of the call record repeat
CycleLength ==
    IF pure.mode = "WEIGHTED" THEN SumWeights(pure.phones, 1) ELSE Len(pure.phones)

\* selectPhone(phones, counter, mode, shuffleSeed) with the next counter
SelectPhoneCall ==
    /\ pure.mode # "none"
    /\ Len(pure.results) < MaxCycles * CycleLength
       \/ pure.results = <<>>
    /\ pure' = [pure EXCEPT !.results =
                  Append(@, selectPhone(pure.phones, Len(@) + 1, pure.mode, pure.seed))]
    /\ UNCHANGED <<link, phoneStatus, rotation, fpMap, totalClicks, now, inv,
                   sweeps, statsCalls, budget>>

NextPure == SelectPhoneCall

SpecPure == InitPure /\ [][NextPure]_vars

(***************************************************************************)
(* The specification of repeated calls: stableShuffle and selectPhone are  *)
(* called again and again with the arguments of the call record while the  *)
(* clock advances; every call is recorded with its arguments, its time and *)
(* what it returned.                                                       *)
(***************************************************************************)
\* the seeds of the repeated calls: the shortest generated seeds and the
\* seeds selectPhoneForClick computes
ShuffleSeeds == {s \in PureSeeds : Len(s) <= 1 \/ Len(s) > MaxSeedLen}

InitShuffle ==
    /\ Store(DefaultConfigs, {[p \in PhoneIds |-> "ACTIVE"]}, {0},
             [NoEnv EXCEPT !.hours = MaxTime])
    /\ pure \in [phones : PurePools, seed : ShuffleSeeds, mode : PureModes,
                 results : {<<>>}, calls : {<<>>}]

\* a call is recorded
Called(fn, items, counter, out) ==
    /\ pure.mode # "none"
    /\ Len(pure.calls) < MaxCalls
    /\ pure' = [pure EXCEPT !.calls =
                  Append(@, [fn |-> fn, items |-> items, counter |-> counter,
                             at |-> now, out |-> out])]
    /\ UNCHANGED <<link, phoneStatus, rotation, fpMap, totalClicks, now, inv,
                   sweeps, statsCalls, budget>>

\* stableShuffle(items, seed) on the pool with every entry repeated weight
\* times
StableShuffleCall ==
    LET items == Expand(pure.phones, 1)
    IN  Called("stableShuffle", items, 0, stableShuffle(items, pure.seed))

\* stableShuffle(phones, seed) on the pool snapshot the callers share
StableShuffleShared ==
    LET arrays == stableShuffleArrays(pure.phones, pure.seed)
    IN  /\ pure.mode # "none"
        /\ Len(pure.calls) < MaxCalls
        /\ pure' = [pure EXCEPT
                      !.phones = arrays.items,
                      !.calls = Append(@, [fn |-> "stableShuffleShared",
                                           items |-> pure.phones, counter |-> 0,
                                           at |-> now, out |-> arrays.result,
                                           after |-> arrays.items,
                                           fresh |-> arrays.fresh])]
        /\ UNCHANGED <<link, phoneStatus, rotation, fpMap, totalClicks, now, inv,
                       sweeps, statsCalls, budget>>

\* selectPhone(phones, counter, mode, shuffleSeed) with any counter
SelectPhoneRepeat ==
    \E counter \in 1..MaxCalls :
        Called("selectPhone", pure.phones, counter,
               <<selectPhone(pure.phones, counter, pure.mode, pure.seed)>>)

NextShuffle ==
    \/ StableShuffleCall
    \/ StableShuffleShared
    \/ SelectPhoneRepeat
    \/ Tick

SpecShuffle == InitShuffle /\ [][NextShuffle]_vars

(***************************************************************************)
(* The specification of the fingerprints: generateFingerprint is called    *)
(* with empty and non-empty arguments while the clock runs.                *)
(***************************************************************************)
InitHash ==
    /\ Store(DefaultConfigs, {[p \in PhoneIds |-> "ACTIVE"]}, {0},
             [NoEnv EXCEPT !.hours = MaxTime])
    /\ pure = [NoCall EXCEPT !.mode = "UNKNOWN"]

\* generateFingerprint(ip, userAgent, linkId, salt)
GenerateFingerprintCall ==
    \E a \in FingerprintArgs :
        Called("generateFingerprint", <<a.ip, a.userAgent, a.linkId, a.salt>>, 0,
               generateFingerprint(a.ip, a.userAgent, a.linkId, a.salt))

NextHash ==
    \/ GenerateFingerprintCall
    \/ Tick

SpecHash == InitHash /\ [][NextHash]_vars

(***************************************************************************)
(* The specification of the sticky race: clicks of the visitors on a       *)
(* sticky campaign with a fixed pool, no storage error, no sweep, and a    *)
(* clock that stands still.                                                *)
(***************************************************************************)
StickyConfigs ==
    [l \in Links |-> {c \in LinkConfigs(l) :
                        l = "L1" => c.stickyEnabled
                                    /\ c.rotationMode = "ROUND_ROBIN_SHUFFLED"}]

InitRace ==
    Fresh(StickyConfigs, {[p \in PhoneIds |-> "ACTIVE"]}, {MaxRaceClicks},
          [NoEnv EXCEPT !.concurrent = MaxConcurrent, !.links = {"L1"},
                        !.visitors = Visitors, !.bots = {FALSE}])

NextRace ==
    \/ \E r \in DOMAIN inv : SelectStart(r)
    \/ \E r \in DOMAIN inv : GetActivePhones(r)
    \/ \E r \in DOMAIN inv : GetStickyMapping(r)
    \/ \E r \in DOMAIN inv : IsPhoneActive(r)
    \/ \E r \in DOMAIN inv : IncrementCounter(r)
    \/ \E r \in DOMAIN inv : SetStickyMapping(r)

SpecRace == InitRace /\ [][NextRace]_vars

(***************************************************************************)
(* The specification of fairness: k * N concurrent human clicks on a       *)
(* campaign with a fixed pool of N active phones and sticky disabled.      *)
(***************************************************************************)
RotatingConfigs ==
    [l \in Links |-> {c \in LinkConfigs(l) : ~c.stickyEnabled}]

\* the first n phones of L1 are active, the others do not exist
PoolOfSize(n) ==
    [p \in PhoneIds |->
        IF PhoneLink[p] = "L1" /\ \E k \in 1..n : PhoneOrder[k] = p
        THEN "ACTIVE" ELSE "NONE"]

InitFair ==
    \E n \in 1..Cardinality({p \in PhoneIds : PhoneLink[p] = "L1"}) :
       Fresh(RotatingConfigs, {PoolOfSize(n)},
             {m \in 1..MaxFairClicks : m % n = 0},
             [NoEnv EXCEPT !.concurrent = MaxFairClicks, !.links = {"L1"},
                           !.visitors = {v \in Visitors : v.ip = Chars["ip1"]},
                           !.bots = {FALSE}])

NextFair ==
    \/ \E r \in DOMAIN inv : SelectStart(r)
    \/ \E r \in DOMAIN inv : GetActivePhones(r)
    \/ \E r \in DOMAIN inv : IncrementCounter(r)

SpecFair == InitFair /\ [][NextFair]_vars

(***************************************************************************)
(* The specification of the redirect handler: requests on a campaign with  *)
(* storage errors.                                                         *)
(***************************************************************************)
RedirectConfigs ==
    [l \in Links |-> {c \in LinkConfigs(l) :
                        c.rotationMode = "ROUND_ROBIN_SHUFFLED"}]

InitRedirect ==
    Fresh(RedirectConfigs, {[p \in PhoneIds |-> "ACTIVE"]}, {MaxRequests},
          [NoEnv EXCEPT !.faults = MaxFaults, !.concurrent = MaxConcurrent,
                        !.links = {"L1"},
                        !.visitors = {v \in Visitors : v.ip = Chars["ip1"]},
                        !.agents = {Chars["ua"], Chars["bot"]},
                        !.keys = {"key"},
                        !.phones = {"undefined", OverridePhone},
                        !.overrideKey = "key"])

NextRedirect ==
    \/ \E r \in DOMAIN inv : StartRedirect(r)
    \/ \E r \in DOMAIN inv : GetActivePhones(r)
    \/ \E r \in DOMAIN inv : GetStickyMapping(r)
    \/ \E r \in DOMAIN inv : IsPhoneActive(r)
    \/ \E r \in DOMAIN inv : IncrementCounter(r)
    \/ \E r \in DOMAIN inv : SetStickyMapping(r)
    \/ \E r \in DOMAIN inv : Respond(r)
    \/ \E p \in PhoneIds : RecordPhoneClick(p)

SpecRedirect == InitRedirect /\ [][NextRedirect]_vars

(***************************************************************************)
(* The specification of the phone override: requests with and without the  *)
(* query parameters override_key and phone, on a server with and without a *)
(* configured PHONE_OVERRIDE_KEY.                                          *)
(***************************************************************************)
\* the values of process.env.PHONE_OVERRIDE_KEY || ''
ConfiguredKeys == {"", "key"}

\* the values of query.override_key
QueryKeys == {"undefined", "", "key"}

\* the values of query.phone
QueryPhones == {"undefined", "", OverridePhone}

InitOverride ==
    \E configured \in ConfiguredKeys :
        Fresh(RedirectConfigs, {[p \in PhoneIds |-> "ACTIVE"]}, {MaxOverrideRequests},
              [NoEnv EXCEPT !.faults = MaxFaults, !.concurrent = MaxConcurrent,
                            !.links = {"L1"},
                            !.visitors = {v \in Visitors : v.ip = Chars["ip1"]},
                            !.agents = {Chars["ua"], Chars["bot"]},
                            !.keys = QueryKeys,
                            !.phones = QueryPhones,
                            !.overrideKey = configured])

SpecOverride == InitOverride /\ [][NextRedirect]_vars

(***************************************************************************)
(* The specification of the single pass: human and bot clicks of one       *)
(* visitor on a campaign with sticky mode on or off and storage errors;    *)
(* every storage call that is awaited returns or raises.                   *)
(***************************************************************************)
InitSinglePass ==
    Fresh(RedirectConfigs, {[p \in PhoneIds |-> "ACTIVE"]}, {MaxClicks},
          [NoEnv EXCEPT !.faults = MaxFaults, !.concurrent = MaxConcurrent,
                        !.links = {"L1"},
                        !.visitors = {v \in Visitors : v.ip = Chars["ip1"]},
                        !.bots = BOOLEAN])

\* an awaited storage call other than the counter statement returns or raises
StorageCallEnds ==
    \E r \in DOMAIN inv :
        \/ GetActivePhones(r)
        \/ GetStickyMapping(r)
        \/ IsPhoneActive(r)
        \/ SetStickyMapping(r)

\* the awaited counter statement returns or raises: weak fairness of
\* IncrementCounter, written with its enabling condition (an invocation
\* is at the increment)
CounterCallEnds ==
    \/ []<>(\A r \in DOMAIN inv : inv[r].pc # "increment")
    \/ []<><<\E r \in DOMAIN inv : IncrementCounter(r)>>_vars

SpecSinglePass ==
    /\ InitSinglePass
    /\ [][NextRace]_vars
    /\ WF_vars(StorageCallEnds)
    /\ CounterCallEnds

(***************************************************************************)
(* The specification of two campaigns: clicks of one visitor on L1 and L2, *)
(* each with a known or an unrecognised rotation mode and sticky mode on   *)
(* or off, a switch of the sticky column, sweeps and the clock.            *)
(***************************************************************************)
\* links.rotation_mode is TEXT and updateLinkRotationConfig writes any
\* string: a mode that is none of the three can be stored
CampaignConfigs ==
    [l \in Links |-> [defaultPhone : {DefaultPhone[l]},
                      rotationMode : {"ROUND_ROBIN_SHUFFLED", "UNKNOWN"},
                      stickyEnabled : BOOLEAN, stickyTtlHours : {TtlHours}]]

InitCampaigns ==
    Fresh(CampaignConfigs, {[p \in PhoneIds |-> "ACTIVE"]}, {MaxCampaignClicks},
          [NoEnv EXCEPT !.admin = MaxAdminOps, !.sweeps = MaxSweeps,
                        !.hours = MaxTime, !.concurrent = MaxConcurrent,
                        !.links = Links,
                        !.visitors = {v \in Visitors : v.ip = Chars["ip1"]},
                        !.bots = {FALSE}])

NextCampaigns ==
    \/ \E r \in DOMAIN inv : SelectStart(r)
    \/ \E r \in DOMAIN inv : GetActivePhones(r)
    \/ \E r \in DOMAIN inv : GetStickyMapping(r)
    \/ \E r \in DOMAIN inv : IsPhoneActive(r)
    \/ \E r \in DOMAIN inv : IncrementCounter(r)
    \/ \E r \in DOMAIN inv : SetStickyMapping(r)
    \/ CleanupSweep
    \/ \E l \in Links, stickyEnabled \in BOOLEAN :
          UpdateLinkRotationConfig(l, stickyEnabled)
    \/ \E l \in Links : ResetRotationCounter(l)
    \/ Tick

SpecCampaigns == InitCampaigns /\ [][NextCampaigns]_vars

(***************************************************************************)
(* Properties.                                                             *)
(***************************************************************************)
\* the element set of a sequence
Range(seq) == {seq[k] : k \in 1..Len(seq)}

\* the storage calls of selectPhoneForClick outside its try/catch
Uncaught ==
    {"getActivePhonesForLink", "getStickyMapping", "isPhoneActive",
     "incrementRotationCounter"}

\* the invocation r returns in this step
Returns(r) == inv[r].pc \notin {"done", "replied"} /\ inv'[r].pc = "done"

\* C1: an invocation of selectPhoneForClick whose incrementRotationCounter
\* call raised an error does not raise: it returns the campaign's
\* defaultPhone with phoneId null and source 'fallback'.
C1_CounterErrorFallsBack ==
    \A r \in DOMAIN inv :
       inv[r].kind = "select" /\ inv[r].failed = "incrementRotationCounter"
       => /\ inv[r].pc = "done"
          /\ inv[r].result = DefaultResult(inv[r].link, "fallback")

\* C2: an invocation of selectPhoneForClick whose getActivePhonesForLink,
\* getStickyMapping or isPhoneActive call raised an error still returns a
\* result whose phone is the campaign's defaultPhone; nothing is thrown.
C2_StorageErrorReturnsDefault ==
    \A r \in DOMAIN inv :
       /\ inv[r].kind = "select"
       /\ inv[r].failed \in {"getActivePhonesForLink", "getStickyMapping",
                             "isPhoneActive"}
       => /\ inv[r].pc = "done"
          /\ inv[r].result.phone = link[inv[r].link].defaultPhone

\* C3: whenever selectPhoneForClick throws inside handleRedirect, the
\* handler goes on (its continuation is enabled) and replies with its normal
\* response, a redirect or the preview page, for phone = link.defaultPhone
\* and phoneId = null.
C3_RedirectSurvivesSelectionError ==
    \A r \in DOMAIN inv :
       inv[r].kind = "redirect" /\ inv[r].failed \in Uncaught
       => /\ inv[r].pc \in {"threw", "replied"}
          /\ inv[r].pc = "threw" => ENABLED Respond(r)
          /\ inv[r].pc = "replied" =>
                /\ inv[r].reply.phone = link[inv[r].link].defaultPhone
                /\ inv[r].reply.phoneId = NoPhone
                /\ inv[r].reply.status =
                      (IF inv[r].request.forcePreview THEN 200 ELSE 302)

\* a human request whose counter increment raised an error was redirected
\* to the default phone
C3_Witness ==
    \E r \in DOMAIN inv :
       /\ inv[r].kind = "redirect" /\ inv[r].pc = "replied"
       /\ inv[r].failed = "incrementRotationCounter"
       /\ inv[r].reply = [status |-> 302, phone |-> DefaultPhone["L1"],
                          phoneId |-> NoPhone]

\* C4: a call of selectPhoneForClick with the bot flag returns at once the
\* defaultPhone with phoneId null and source 'default', whatever the pool
\* and the mappings are, and makes no storage call: the counter and the
\* mappings are as they were.
C4_BotGetsDefault ==
    [][\A r \in DOMAIN inv :
          inv[r].pc = "idle" /\ inv'[r].pc # "idle" /\ inv'[r].isBot
          => /\ inv'[r].pc = "done"
             /\ inv'[r].result = DefaultResult(inv'[r].link, "default")
             /\ inv'[r].ops = <<>>
             /\ rotation' = rotation
             /\ fpMap' = fpMap]_vars

\* a bot click of a visitor whose fingerprint has an unexpired mapping, on
\* a campaign with a non-empty pool, has returned
C4_Witness ==
    \E r \in DOMAIN inv :
       /\ inv[r].isBot /\ inv[r].pc = "done"
       /\ inv[r].pinned # NoPhone
       /\ Len(getActivePhonesForLink(inv[r].link)) > 1
       /\ inv[r].result = DefaultResult("L1", "default")

C6_StickyHitKeepsCounter ==
    [][\A r \in DOMAIN inv :
          Returns(r) /\ inv'[r].result.source = "sticky"
          => /\ rotation' = rotation
             /\ "incrementRotationCounter" \notin Range(inv'[r].ops)
             /\ inv'[r].counter = 0]_vars

\* a sticky hit on a campaign whose counter has been incremented
C6_Witness ==
    \E r \in DOMAIN inv :
       /\ inv[r].pc = "done" /\ inv[r].result.source = "sticky"
       /\ rotation[inv[r].link] >= 1
       /\ inv[r].ops = <<"getActivePhonesForLink", "getStickyMapping", "isPhoneActive">>

\* C7: a sticky-enabled invocation whose lookup found the unexpired mapping
\* F -> B, whose fetched pool does not contain B, and whose storage calls
\* raise no error, goes on to the counter increment, obtains the next
\* counter value, selects a phone of its fetched pool, and returns it with
\* source 'rotation'; after that step the one stored mapping of F names the
\* returned phone and expires TTL hours later.
C7_StaleMappingIsOverwritten ==
    [][\A r \in DOMAIN inv :
          LET me == inv[r]
              l  == me.link
          IN  /\ me.mapping # NoPhone
              /\ me.mapping \notin Range(me.activePhones)
              /\ inv'[r].failed = "none"
              /\ me # inv'[r]
              => /\ me.pc = "isActive" => inv'[r].pc = "increment"
                 /\ me.pc = "increment" =>
                       /\ inv'[r].pc = "setSticky"
                       /\ inv'[r].counter = incrementRotationCounter(l)
                       /\ rotation'[l] = inv'[r].counter
                       /\ inv'[r].selected \in Range(me.activePhones)
                 /\ me.pc = "setSticky" =>
                       /\ inv'[r].pc = "done"
                       /\ inv'[r].result = PhoneResult(me.selected, "rotation")
                       /\ me.selected \in Range(me.activePhones) \ {me.mapping}
                       /\ "incrementRotationCounter" \in Range(me.ops)
                       /\ {m \in fpMap' : m.linkId = l /\ m.fingerprintHash = me.fp}
                          = {[linkId |-> l, fingerprintHash |-> me.fp,
                              phoneId |-> me.selected,
                              expiresAt |-> now + link[l].stickyTtlHours]}]_vars

\* a click of a visitor mapped to a phone that is paused has returned another
\* phone by rotation, and the mapping names that phone
C7_Witness ==
    \E r \in DOMAIN inv :
       /\ inv[r].pc = "done" /\ inv[r].failed = "none"
       /\ inv[r].pinned # NoPhone
       /\ phoneStatus[inv[r].pinned] = "PAUSED"
       /\ inv[r].ops = <<"getActivePhonesForLink", "getStickyMapping", "isPhoneActive",
                         "incrementRotationCounter", "setStickyMapping">>
       /\ inv[r].result.source = "rotation"
       /\ inv[r].result.phoneId # inv[r].pinned
       /\ StoredPhone(inv[r].link, inv[r].fp) = inv[r].result.phoneId

\* C8: for a pool of N >= 1 phones, a seed and mode ROUND_ROBIN_SHUFFLED or
\* RANDOM_NO_REPEAT_EPOCH, the results of selectPhone for the counters 1..N
\* hold every pool member exactly once, and the result for every counter
\* above N is the result for that counter minus N.
C8_CountersCycleThroughPool ==
    LET n   == Len(pure.phones)
        res == pure.results
    IN  pure.mode \in {"ROUND_ROBIN_SHUFFLED", "RANDOM_NO_REPEAT_EPOCH"} /\ n >= 1
        => /\ \A k \in 1..Len(res) : k > n => res[k] = res[k - n]
           /\ Len(res) >= n =>
                 \A p \in 1..n :
                    Cardinality({k \in 1..n : res[k] = pure.phones[p]}) = 1

\* two full cycles over a pool of three phones in an order that is not the
\* order of the pool, with a seed selectPhoneForClick computes
C8_Witness ==
    /\ pure.mode = "RANDOM_NO_REPEAT_EPOCH"
    /\ Len(pure.phones) = 3
    /\ Len(pure.results) = 6
    /\ Len(pure.seed) > MaxSeedLen
    /\ pure.results[1] # pure.phones[1]
    /\ pure.results[4] = pure.results[1]

\* C9: a call of incrementRotationCounter that returns a value returns the
\* stored counter plus one, 1 when the campaign has no counter row, leaves
\* that value in the row, and no other invocation on the campaign has
\* obtained the same value.
C9_CounterValuesAreUnique ==
    [][\A r \in DOMAIN inv :
          inv'[r].counter # inv[r].counter
          => /\ inv[r].pc = "increment"
             /\ inv'[r].counter =
                   (IF rotation[inv[r].link] = NoRow THEN 1
                    ELSE rotation[inv[r].link] + 1)
             /\ rotation'[inv[r].link] = inv'[r].counter
             /\ \A s \in DOMAIN inv \ {r} :
                   inv[s].link = inv[r].link => inv[s].counter # inv'[r].counter]_vars

\* two invocations in flight at once hold the counter values 1 and 2
C9_Witness ==
    \E r, s \in DOMAIN inv :
       /\ r # s /\ inv[r].link = inv[s].link
       /\ inv[r].pc = "setSticky" /\ inv[s].pc = "setSticky"
       /\ inv[r].counter = 1 /\ inv[s].counter = 2

\* the active phones of L1
\* how often x occurs in seq
Count(seq, x) == Cardinality({k \in 1..Len(seq) : seq[k] = x})

\* the recorded calls of fn
CallsOf(fn) == {k \in 1..Len(pure.calls) : pure.calls[k].fn = fn}

\* the components in which two argument lists differ
Changed(a, b) == {k \in 1..Len(a) : a[k] # b[k]}

\* /^[a-f0-9]{64}$/
IsLowerHex64(str) ==
    /\ Len(str) = 64
    /\ \A k \in 1..Len(str) : str[k] \in (48..57) \cup (97..102)

\* C19: generateFingerprint is a function of its arguments alone: for any
\* arguments, empty strings included, it returns 64 lowercase hex
\* characters, equal arguments give equal results whenever the calls are
\* made, and two calls that differ in exactly one of ip, userAgent, linkId
\* and salt give different results.
C19_FingerprintIsHexAndSensitive ==
    \A i \in CallsOf("generateFingerprint") :
        /\ IsLowerHex64(pure.calls[i].out)
        /\ \A j \in CallsOf("generateFingerprint") :
               /\ Changed(pure.calls[i].items, pure.calls[j].items) = {}
                     => pure.calls[i].out = pure.calls[j].out
               /\ Cardinality(Changed(pure.calls[i].items, pure.calls[j].items)) = 1
                     => pure.calls[i].out # pure.calls[j].out

\* two calls at different times, the first with every argument empty (the
\* digest of ":::", which starts with "f1ae2a75"), the second with only the
\* salt changed, have returned two different digests
C19_Witness ==
    /\ Len(pure.calls) = 2
    /\ pure.calls[1].fn = "generateFingerprint"
    /\ pure.calls[2].fn = "generateFingerprint"
    /\ pure.calls[1].items = <<<<>>, <<>>, <<>>, <<>>>>
    /\ Changed(pure.calls[1].items, pure.calls[2].items) = {4}
    /\ pure.calls[1].at < pure.calls[2].at
    /\ IsLowerHex64(pure.calls[1].out)
    /\ SubSeq(pure.calls[1].out, 1, 8) = <<102, 49, 97, 101, 50, 97, 55, 53>>
    /\ IsLowerHex64(pure.calls[2].out)
    /\ pure.calls[1].out # pure.calls[2].out

\* C11: whatever the sequence and the seed, stableShuffle returns a
\* permutation of its input: the result is as long as the input, holds
\* every element as often as the input does, and holds no undefined slot.
C11_ShuffleIsPermutation ==
    \A k \in CallsOf("stableShuffle") :
        LET items == pure.calls[k].items
            out   == pure.calls[k].out
        IN  /\ Len(out) = Len(items)
            /\ \A x \in Range(items) \cup Range(out) :
                   Count(out, x) = Count(items, x)
            /\ Undefined \notin Range(out)

\* a shuffle of a sequence with a repeated element moved its elements
C11_Witness ==
    \E k \in CallsOf("stableShuffle") :
        LET items == pure.calls[k].items
            out   == pure.calls[k].out
        IN  /\ Len(items) >= 3
            /\ \E x \in Range(items) : Count(items, x) = 2
            /\ out # items
            /\ Len(pure.seed) > MaxSeedLen

\* the two 32-bit accumulators s with s * 1103515245 + 12345 = 0x7fffffff
\* modulo 2^31 in exact arithmetic; for both the binary64 product is rounded
ExactPreimagesOfInt32Max == {230538014, 230538014 - Int32Max - 1}

\* the calls of seededRandom in the Fisher-Yates loop from the accumulator s
\* and the index i down: the accumulator each call leaves and the swap
\* index computed from it
RECURSIVE Draws(_, _)
Draws(s, i) ==
    IF i <= 0 \/ s \notin Int THEN <<>>
    ELSE LET s1 == LcgStep(s)
         IN  <<[i |-> i, seedNum |-> s1, j |-> RandomIndex(s1, i + 1)]>>
             \o Draws(s1, i - 1)

\* C22: in every call of stableShuffle, each call of the seeded generator
\* leaves an accumulator in 0 .. 0x7ffffffe, so the fraction
\* seedNum / 0x7fffffff is in [0, 1) and never 1, and the swap index j of
\* the step for index i satisfies 0 <= j <= i.
C22_SwapIndexStaysInRange ==
    /\ \A s \in ExactPreimagesOfInt32Max : LcgStep(s) # Int32Max
    /\ \A k \in CallsOf("stableShuffle") :
           \A d \in Range(Draws(SeedNum(pure.seed), Len(pure.calls[k].items) - 1)) :
               /\ d.seedNum >= 0
               /\ d.seedNum < Int32Max
               /\ d.j >= 0
               /\ d.j <= d.i

\* a shuffle of at least three elements from a negative accumulator, with
\* a step that swaps the element with itself (j = i) and a step with j = 0
C22_Witness ==
    \E k \in CallsOf("stableShuffle") :
        LET draws == Draws(SeedNum(pure.seed), Len(pure.calls[k].items) - 1)
        IN  /\ Len(draws) >= 2
            /\ SeedNum(pure.seed) < 0
            /\ \E d \in Range(draws) : d.j = d.i
            /\ \E d \in Range(draws) : d.j = 0

C13_EqualWeightsAreRoundRobin ==
    pure.mode = "WEIGHTED" /\ (\A k \in 1..Len(pure.phones) : pure.phones[k].weight = 1)
    => \A counter \in 1..Len(pure.results) :
          pure.results[counter] =
              selectPhone(pure.phones, counter, "ROUND_ROBIN_SHUFFLED", pure.seed)

\* a WEIGHTED pool of three entries of weight 1 was cycled through twice,
\* in an order other than the pool's
C13_Witness ==
    /\ pure.mode = "WEIGHTED"
    /\ Len(pure.phones) = 3
    /\ \A k \in 1..3 : pure.phones[k].weight = 1
    /\ Len(pure.results) = 6
    /\ <<pure.results[1], pure.results[2], pure.results[3]>> # pure.phones

\* C20: in WEIGHTED mode on a pool whose weights are positive and not all
\* 1, with W the sum of the weights, the counters 1..W return every entry
\* exactly weight times, and the counters above W repeat the sequence of
\* the counters 1..W.
C20_WeightedCycleFollowsWeights ==
    LET n == Len(pure.phones)
        W == SumWeights(pure.phones, 1)
    IN  /\ pure.mode = "WEIGHTED"
        /\ \E k \in 1..n : pure.phones[k].weight # 1
        /\ Len(pure.results) >= W
        => /\ \A k \in 1..n :
                Count(SubSeq(pure.results, 1, W), pure.phones[k])
                    = pure.phones[k].weight
           /\ \A counter \in (W + 1)..Len(pure.results) :
                pure.results[counter] = pure.results[counter - W]

\* a pool of weights 2, 1, 2 was cycled through twice, and the first cycle
\* is not the pool's entries each repeated in the pool's order
C20_Witness ==
    /\ pure.mode = "WEIGHTED"
    /\ Len(pure.phones) = 3
    /\ <<pure.phones[1].weight, pure.phones[2].weight, pure.phones[3].weight>>
           = <<2, 1, 2>>
    /\ Len(pure.results) = 10
    /\ SubSeq(pure.results, 1, 5) # Expand(pure.phones, 1)
    /\ Len(pure.seed) > MaxSeedLen

\* C14: when setStickyMapping raises an error during the write-back, the
\* invocation still returns the phone the rotation selected, with source
\* 'rotation' and that phone's id, and the error changes neither the
\* counter value the invocation consumed nor the stored counter.
C14_WriteBackErrorKeepsRotation ==
    [][\A r \in DOMAIN inv :
          inv[r].pc = "setSticky" /\ inv'[r].failed = "setStickyMapping"
          => /\ inv'[r].pc = "done"
             /\ inv'[r].result = [phone   |-> PhoneNumber[inv[r].selected],
                                  phoneId |-> inv[r].selected,
                                  source  |-> "rotation"]
             /\ inv[r].selected \in Range(inv[r].activePhones)
             /\ inv'[r].counter = inv[r].counter
             /\ rotation' = rotation]_vars

\* a click returned a rotation phone although its write-back failed and
\* left no mapping behind
C14_Witness ==
    \E r \in DOMAIN inv :
        /\ inv[r].pc = "done"
        /\ inv[r].failed = "setStickyMapping"
        /\ inv[r].result.source = "rotation"
        /\ inv[r].counter = rotation[inv[r].link]
        /\ ~ \E m \in fpMap : m.fingerprintHash = inv[r].fp

\* C15: a click of a visitor that is not a bot, on a campaign whose pool
\* has no ACTIVE phone when it is fetched (no row, or every row paused),
\* returns defaultPhone with phoneId null and source 'default'; the fetch
\* is its only storage call: the counter is not incremented and no sticky
\* mapping is read or written.
C15_EmptyPoolReturnsDefault ==
    [][\A r \in DOMAIN inv :
          /\ inv[r].pc = "getActive"
          /\ inv'[r] # inv[r]
          /\ inv'[r].pc # "threw"
          /\ \A p \in PhoneIds :
                PhoneLink[p] = inv[r].link => phoneStatus[p] # "ACTIVE"
          => /\ ~inv[r].isBot
             /\ inv'[r].pc = "done"
             /\ inv'[r].result = [phone   |-> link[inv[r].link].defaultPhone,
                                  phoneId |-> NoPhone,
                                  source  |-> "default"]
             /\ inv'[r].ops = <<"getActivePhonesForLink">>
             /\ rotation' = rotation
             /\ fpMap' = fpMap]_vars

\* a visitor's click on a sticky campaign whose phones are all paused has
\* returned the default phone
C15_Witness ==
    \E r \in DOMAIN inv :
        /\ inv[r].pc = "done"
        /\ ~inv[r].isBot
        /\ inv[r].result.source = "default"
        /\ link[inv[r].link].stickyEnabled
        /\ rotation[inv[r].link] = NoRow
        /\ \E p \in PhoneIds : PhoneLink[p] = inv[r].link
        /\ \A p \in PhoneIds :
              PhoneLink[p] = inv[r].link => phoneStatus[p] = "PAUSED"

\* C16: the pool an invocation fetches holds exactly the phones of the
\* campaign that are ACTIVE at the fetch, and a result with source
\* 'rotation' or 'sticky' names a phone of the pool the invocation fetched;
\* so a phone that is PAUSED during the whole invocation is never returned
\* with one of these sources (stated directly for the phones paused since
\* the start of the behaviour, before any admin operation).
C16_PausedPhoneIsNotReturned ==
    [][\A r \in DOMAIN inv :
          /\ inv[r].pc = "getActive" /\ inv'[r].pc \in {"getSticky", "increment"}
             => Range(inv'[r].activePhones)
                   = {p \in PhoneIds : /\ PhoneLink[p] = inv[r].link
                                       /\ phoneStatus[p] = "ACTIVE"}
          /\ /\ inv[r].pc # "done" /\ inv'[r].pc = "done"
             /\ inv'[r].result.source \in {"rotation", "sticky"}
             => /\ inv'[r].result.phoneId \in Range(inv[r].activePhones)
                /\ inv'[r].result.phone = PhoneNumber[inv'[r].result.phoneId]
                /\ \A p \in PhoneIds :
                      phoneStatus'[p] = "PAUSED" /\ budget'.admin = MaxAdminOps
                      => inv'[r].result.phoneId # p]_vars

\* with p3 paused from the start and no admin operation, a click returned
\* a sticky phone and a click returned a rotation phone
C16_Witness ==
    /\ phoneStatus["p3"] = "PAUSED"
    /\ phoneStatus["p1"] = "ACTIVE"
    /\ budget.admin = MaxAdminOps
    /\ \E r, q \in DOMAIN inv :
          /\ inv[r].pc = "done" /\ inv[r].result.source = "rotation"
          /\ inv[q].pc = "done" /\ inv[q].result.source = "sticky"

\* C17: at every date, getTimeBucket('day') is a string of the form
\* YYYY-MM-DD: four digits, a hyphen, two digits, a hyphen, two digits
\* (the pattern /^\d{4}-\d{2}-\d{2}$/).
C17_DayBucketIsYearMonthDay ==
    LET bucket == getTimeBucket("day")
    IN  /\ Len(bucket) = 10
        /\ \A k \in {1, 2, 3, 4, 6, 7, 9, 10} : bucket[k] \in 48..57
        /\ bucket[5] = 45
        /\ bucket[8] = 45

ActivePool == Range(getActivePhonesForLink("L1"))

\* C10: on a campaign with a fixed pool of N active phones of weight 1,
\* sticky disabled and a fixed seed, when all of k * N concurrent human
\* clicks from a fresh counter have returned, every phone of the pool has
\* been returned by rotation exactly k times.
C10_ConcurrentClicksAreFair ==
    (\A r \in DOMAIN inv : inv[r].pc = "done")
    => \A p \in ActivePool :
          Cardinality({r \in DOMAIN inv : inv[r].result = PhoneResult(p, "rotation")})
             * Cardinality(ActivePool) = Cardinality(DOMAIN inv)

\* six clicks on three phones have returned, two of them with counter values
\* in the reverse order of their calls
C10_Witness ==
    /\ Cardinality(ActivePool) = 3
    /\ Cardinality(DOMAIN inv) = 6
    /\ \A r \in DOMAIN inv : inv[r].pc = "done"
    /\ \E r, s \in DOMAIN inv : r < s /\ inv[r].counter > inv[s].counter
    /\ \A p \in ActivePool :
          Cardinality({r \in DOMAIN inv : inv[r].result.phoneId = p}) = 2

\* selectPhone with a rotation mode that is none of the three, on every
\* non-empty pool, counter and seed of the pure specification
UnknownModeSelectsFirst ==
    \A phones \in PurePools, counter \in 0..(MaxCycles * MaxPool), seed \in PureSeeds :
        Len(phones) > 0 => selectPhone(phones, counter, "UNKNOWN", seed) = phones[1]

\* C21: with a rotation mode that is none of the three, selectPhone returns
\* the first entry of the pool for every counter and seed, and an
\* invocation of selectPhoneForClick that rotates returns the first active
\* phone of the campaign with source 'rotation' and does not raise.
C21_UnknownModeReturnsFirstPhone ==
    /\ UnknownModeSelectsFirst
    /\ \A r \in DOMAIN inv :
          (/\ inv[r].pc \in {"done", "threw"}
           /\ link[inv[r].link].rotationMode = "UNKNOWN"
           /\ "incrementRotationCounter" \in Range(inv[r].ops))
          => /\ inv[r].pc = "done"
             /\ inv[r].result =
                   PhoneResult(Head(getActivePhonesForLink(inv[r].link)), "rotation")

\* two clicks on L1, whose mode is unrecognised, have taken the counters 1
\* and 2 and both returned the first of its three phones
C21_Witness ==
    /\ link["L1"].rotationMode = "UNKNOWN"
    /\ Len(getActivePhonesForLink("L1")) = 3
    /\ \E r, s \in DOMAIN inv :
          /\ inv[r].pc = "done" /\ inv[r].link = "L1" /\ inv[r].counter = 1
          /\ inv[s].pc = "done" /\ inv[s].link = "L1" /\ inv[s].counter = 2
          /\ inv[r].result = PhoneResult("p1", "rotation")
          /\ inv[s].result = inv[r].result

\* the rows of fingerprint_map of a campaign and fingerprint in a set of rows
MappingsOf(rows, l, fp) == {m \in rows : m.linkId = l /\ m.fingerprintHash = fp}

\* the invocation r takes the step from the position pc
StepsFrom(r, pc) == inv[r].pc = pc /\ inv'[r] # inv[r]

\* C23: a sticky lookup that finds no mapping whose expiry is strictly in
\* the future goes on to the counter increment and never to the sticky
\* return; the invocation then increments the counter, selects by rotation
\* and, with sticky enabled, leaves exactly one mapping of its fingerprint,
\* with the chosen phone and the expiry now + TTL hours, and returns the
\* chosen phone with source 'rotation'.
C23_ExpiredMappingIsNotHonoured ==
    [][\A r \in DOMAIN inv :
         LET l == inv[r].link
         IN  /\ (/\ StepsFrom(r, "getSticky")
                 /\ \A m \in MappingsOf(fpMap, l, inv[r].fp) : m.expiresAt <= now)
                => /\ inv'[r].pc = "increment"
                   /\ inv'[r].mapping = NoPhone
             /\ (StepsFrom(r, "increment") /\ link[l].stickyEnabled)
                => /\ rotation'[l] = incrementRotationCounter(l)
                   /\ inv'[r].pc = "setSticky"
                   /\ inv'[r].selected =
                         selectPhone([k \in 1..Len(inv[r].activePhones) |->
                                         PhoneEntry(inv[r].activePhones[k])],
                                     rotation'[l], link[l].rotationMode,
                                     ShuffleSeed(l)).id
             /\ StepsFrom(r, "setSticky")
                => /\ inv'[r].pc = "done"
                   /\ inv'[r].result = PhoneResult(inv[r].selected, "rotation")
                   /\ MappingsOf(fpMap', l, inv[r].fp) =
                         {[linkId |-> l, fingerprintHash |-> inv[r].fp,
                           phoneId |-> inv[r].selected,
                           expiresAt |-> now + link[l].stickyTtlHours]}]_vars

\* the second click was called while the mapping of the first was unexpired
\* (pinned), looked it up when the expiry was no longer in the future, took
\* the counter 2, returned another phone by rotation and left the mapping
\* with that phone and a new expiry
C23_Witness ==
    /\ link["L1"].stickyEnabled
    /\ \E r, s \in DOMAIN inv :
          /\ inv[r].pc = "done" /\ inv[r].link = "L1" /\ inv[r].counter = 1
          /\ inv[s].pc = "done" /\ inv[s].link = "L1" /\ inv[s].counter = 2
          /\ inv[s].pinned = inv[r].result.phoneId
          /\ inv[s].result.source = "rotation"
          /\ inv[s].result.phoneId # inv[r].result.phoneId
          /\ MappingsOf(fpMap, "L1", inv[s].fp) =
                {[linkId |-> "L1", fingerprintHash |-> inv[s].fp,
                  phoneId |-> inv[s].result.phoneId, expiresAt |-> now + TtlHours]}

\* the invocation has returned by rotation
Rotated(r) == inv[r].pc = "done" /\ inv[r].result.source = "rotation"

\* C24: when two clicks of one fingerprint on a sticky campaign, and no
\* third one, have both missed the lookup and returned by rotation, their
\* counter values differ
\* and exactly one mapping of the fingerprint exists, with the phone one of
\* the two chose; a click of that fingerprint called after both write-backs
\* (the mapping it met when called is the one that stays) returns the
\* mapped phone with source 'sticky'.
C24_RacingClicksLeaveOneMapping ==
    \A r, s \in DOMAIN inv :
        (/\ r # s
         /\ Rotated(r) /\ Rotated(s)
         /\ inv[r].link = inv[s].link /\ inv[r].fp = inv[s].fp
         /\ \A t \in DOMAIN inv \ {r, s} :
               (inv[t].link = inv[r].link /\ inv[t].fp = inv[r].fp)
               => "incrementRotationCounter" \notin Range(inv[t].ops))
        => LET rows == MappingsOf(fpMap, inv[r].link, inv[r].fp)
           IN  /\ inv[r].counter # inv[s].counter
               /\ Cardinality(rows) = 1
               /\ \A m \in rows :
                     /\ m.phoneId \in {inv[r].result.phoneId, inv[s].result.phoneId}
                     /\ \A t \in DOMAIN inv :
                           (/\ inv[t].pc = "done"
                            /\ inv[t].link = inv[r].link /\ inv[t].fp = inv[r].fp
                            /\ t \notin {r, s}
                            /\ inv[t].pinned = m.phoneId)
                           => inv[t].result = PhoneResult(m.phoneId, "sticky")

\* the first two clicks raced with the counters 1 and 2, the click with the
\* counter 1 wrote last, and the third click returned its phone as sticky
C24_Witness ==
    /\ Rotated(1) /\ Rotated(2)
    /\ inv[1].fp = inv[2].fp
    /\ inv[1].counter = 1 /\ inv[2].counter = 2
    /\ inv[1].result.phoneId # inv[2].result.phoneId
    /\ Len(inv) = 3
    /\ inv[3].pc = "done"
    /\ inv[3].pinned = inv[1].result.phoneId
    /\ inv[3].result = PhoneResult(inv[1].result.phoneId, "sticky")
    /\ MappingsOf(fpMap, "L1", inv[1].fp) =
          {[linkId |-> "L1", fingerprintHash |-> inv[1].fp,
            phoneId |-> inv[1].result.phoneId, expiresAt |-> now + TtlHours]}

\* the phones of a campaign
PhonesOf(l) == {p \in PhoneIds : PhoneLink[p] = l}

\* the step is taken by an invocation for the campaign l
StepFor(l) == \E r \in DOMAIN inv : inv'[r] # inv[r] /\ inv'[r].link = l

\* C25: a step of an invocation for a campaign, and a sweep, leave the
\* rotation counter and every unexpired sticky mapping of every other
\* campaign as they are; the invocation increments its own campaign's
\* counter by one whatever the other counters are, fetches and returns only
\* phones of its own campaign, and its rotation result is the selection
\* from its own pool, counter, mode and seed.
C25_CampaignsAreIndependent ==
    [][/\ \A l \in Links :
            (~StepFor(l) /\ (inv' # inv \/ sweeps' < sweeps))
            => /\ rotation'[l] = rotation[l]
               /\ \A m \in fpMap : (m.linkId = l /\ m.expiresAt > now) => m \in fpMap'
       /\ \A r \in DOMAIN inv :
            LET l == inv'[r].link
            IN  inv'[r] # inv[r]
                => /\ Range(inv'[r].activePhones) \subseteq PhonesOf(l)
                   /\ inv'[r].mapping \in PhonesOf(l) \cup {NoPhone}
                   /\ inv'[r].result.phoneId \in PhonesOf(l) \cup {NoPhone}
                   /\ StepsFrom(r, "increment")
                      => /\ rotation'[l] =
                               IF rotation[l] = NoRow THEN 1 ELSE rotation[l] + 1
                         /\ inv'[r].counter = rotation'[l]
                         /\ LET sel == selectPhone(
                                           [k \in 1..Len(getActivePhonesForLink(l)) |->
                                               PhoneEntry(getActivePhonesForLink(l)[k])],
                                           rotation'[l], link[l].rotationMode,
                                           ShuffleSeed(l)).id
                            IN  sel \in {inv'[r].selected, inv'[r].result.phoneId}]_vars

\* a click on L2 took the counter 1 and left a mapping that is unexpired;
\* the clicks on L1 took the counters 1 and 2 of L1 and returned two
\* different phones of L1
C25_Witness ==
    /\ Len(inv) = 3
    /\ Rotated(1) /\ inv[1].link = "L2" /\ inv[1].counter = 1
    /\ Rotated(2) /\ inv[2].link = "L1" /\ inv[2].counter = 1
    /\ Rotated(3) /\ inv[3].link = "L1" /\ inv[3].counter = 2
    /\ inv[2].result.phoneId # inv[3].result.phoneId
    /\ rotation = [L1 |-> 2, L2 |-> 1]
    /\ \E m \in fpMap : m.linkId = "L2" /\ m.expiresAt > now /\ m.phoneId = "q1"

\* the storage calls of selectPhoneForClick in the order of its code
CallOrder ==
    <<"getActivePhonesForLink", "getStickyMapping", "isPhoneActive",
      "incrementRotationCounter", "setStickyMapping">>

\* the place of a storage call in that order
CallRank(call) == CHOOSE k \in 1..Len(CallOrder) : CallOrder[k] = call

\* C26: the storage calls an invocation has made are in the order pool
\* fetch, sticky lookup, activity check, counter increment, write-back, each
\* at most once; a bot makes none; the selection exists only after the
\* increment; the counter changes only in the increment step and the
\* mappings only in the write-back step of an invocation; and every
\* invocation that was called returns or raises when its storage calls end.
C26_InvocationIsASinglePass ==
    /\ [](\A r \in DOMAIN inv :
            LET ops == inv[r].ops
            IN  /\ \A i, j \in 1..Len(ops) :
                      i < j => CallRank(ops[i]) < CallRank(ops[j])
                /\ inv[r].isBot => ops = <<>>
                /\ (inv[r].selected # NoPhone \/ inv[r].counter # 0)
                   => "incrementRotationCounter" \in Range(ops)
                /\ inv[r].result.source \in {"sticky", "rotation", "fallback"}
                   => Len(ops) >= 2)
    /\ [][\A r \in DOMAIN inv :
            inv'[r] # inv[r]
            => /\ Len(inv'[r].ops) <= Len(inv[r].ops) + 1
               /\ rotation' # rotation => StepsFrom(r, "increment")
               /\ fpMap' # fpMap => StepsFrom(r, "setSticky")]_vars
    /\ \A r \in 1..MaxClicks :
          (inv[r].pc # "idle") ~> (inv[r].pc \in {"done", "threw"})

\* a click has gone through all of pool fetch, lookup, increment and
\* write-back, its write-back raised an error and it returned by rotation;
\* a bot click has returned without a storage call
C26_Witness ==
    \E r, s \in DOMAIN inv :
        /\ inv[r].pc = "done"
        /\ inv[r].ops = <<"getActivePhonesForLink", "getStickyMapping",
                          "incrementRotationCounter", "setStickyMapping">>
        /\ inv[r].failed = "setStickyMapping"
        /\ inv[r].result.source = "rotation"
        /\ inv[s].pc = "done" /\ inv[s].isBot /\ inv[s].ops = <<>>

\* C27: the step in which an invocation ends its rotation returns the
\* selected phone with source 'rotation' whether or not it starts a sweep;
\* a sweep is started only in such a returning step and is pending when
\* the invocation has returned; a sweep that runs, with or without an
\* error, changes no invocation, and a result that was returned stays as it
\* is while the sweep is pending.
C27_SweepIsDecoupled ==
    [][/\ \A r \in DOMAIN inv :
            /\ StepsFrom(r, "setSticky")
               => /\ inv'[r].pc = "done"
                  /\ inv'[r].result = PhoneResult(inv[r].selected, "rotation")
            /\ (StepsFrom(r, "increment") /\ inv'[r].result.source = "rotation")
               => /\ inv'[r].pc = "done"
                  /\ inv'[r].result =
                        PhoneResult(
                          selectPhone([k \in 1..Len(inv[r].activePhones) |->
                                          PhoneEntry(inv[r].activePhones[k])],
                                      rotation'[inv[r].link],
                                      link[inv[r].link].rotationMode,
                                      ShuffleSeed(inv[r].link)).id,
                          "rotation")
            /\ inv[r].pc = "done" => inv'[r] = inv[r]
       /\ sweeps' > sweeps
          => /\ sweeps' = sweeps + 1
             /\ \E r \in DOMAIN inv : Returns(r) /\ inv'[r].result.source = "rotation"
       /\ sweeps' < sweeps => inv' = inv]_vars

\* every click has returned, one of them by rotation after a write-back,
\* and the sweep it started has not run
C27_Witness ==
    /\ sweeps = 1
    /\ \A r \in DOMAIN inv : inv[r].pc = "done"
    /\ \E r \in DOMAIN inv :
          /\ Rotated(r)
          /\ "setStickyMapping" \in Range(inv[r].ops)

\* the rows a sticky lookup of a campaign and fingerprint finds among
\* `rows` at the time `time`
Found(rows, l, fp, time) == {m \in MappingsOf(rows, l, fp) : m.expiresAt > time}

\* C28: a sweep step removes only rows whose expiry is before the time of
\* the sweep and adds none, so every row that is unexpired at that moment
\* stays, and the sticky lookup of every campaign and fingerprint finds the
\* same rows after the sweep as before it.
C28_SweepDeletesOnlyExpired ==
    [][sweeps' < sweeps
       => /\ fpMap' \subseteq fpMap
          /\ \A m \in fpMap \ fpMap' : m.expiresAt < now
          /\ \A m \in fpMap : m.expiresAt > now => m \in fpMap'
          /\ \A m \in fpMap :
                Found(fpMap', m.linkId, m.fingerprintHash, now')
                   = Found(fpMap, m.linkId, m.fingerprintHash, now)]_vars

\* the sweep has run: the mapping the click on L2 wrote is gone, the
\* unexpired mapping of L1 is kept, and a later click on L1 returned its
\* phone as sticky
C28_Witness ==
    /\ sweeps = 0 /\ budget.sweeps = 0
    /\ \E r \in DOMAIN inv :
          /\ Rotated(r) /\ inv[r].link = "L2"
          /\ "setStickyMapping" \in Range(inv[r].ops)
          /\ MappingsOf(fpMap, "L2", inv[r].fp) = {}
    /\ \E r, s \in DOMAIN inv :
          /\ r < s
          /\ Rotated(r) /\ inv[r].link = "L1"
          /\ Found(fpMap, "L1", inv[r].fp, now) # {}
          /\ inv[s].pc = "done" /\ inv[s].link = "L1"
          /\ inv[s].result = PhoneResult(inv[r].result.phoneId, "sticky")

\* the UTC day of the clock
UtcDay == [UtcDate EXCEPT !.hours = 0]

\* C29: across every step that moves the clock, the seed of a campaign in
\* the mode ROUND_ROBIN_SHUFFLED or WEIGHTED stays the same, and the seed of
\* a campaign in the mode RANDOM_NO_REPEAT_EPOCH stays the same exactly
\* when the UTC day stays the same; at every time the seeds of two
\* different campaigns differ.
C29_SeedFollowsTimeBucketPolicy ==
    [][now' # now
       => /\ \A l \in Links :
               IF link[l].rotationMode = "RANDOM_NO_REPEAT_EPOCH"
               THEN (ShuffleSeed(l)' = ShuffleSeed(l)) <=> (UtcDay' = UtcDay)
               ELSE ShuffleSeed(l)' = ShuffleSeed(l)
          /\ \A l, k \in Links :
               l # k => /\ ShuffleSeed(l) # ShuffleSeed(k)
                        /\ ShuffleSeed(l)' # ShuffleSeed(k)']_vars

\* the day has changed on a RANDOM_NO_REPEAT_EPOCH campaign whose pool of
\* three phones nobody touched: the clicks with the counters 1 and 2
\* returned the same phone, one under the seed of each day
C29_Witness ==
    /\ link["L1"].rotationMode = "RANDOM_NO_REPEAT_EPOCH"
    /\ UtcDate.year = 2026
    /\ budget.admin = MaxAdminOps
    /\ Len(getActivePhonesForLink("L1")) = 3
    /\ \E r, s \in DOMAIN inv :
          /\ Rotated(r) /\ inv[r].counter = 1
          /\ Rotated(s) /\ inv[s].counter = 2
          /\ inv[r].result.phoneId = inv[s].result.phoneId

\* C30: every step of an invocation for a campaign with sticky disabled
\* leaves the mappings as they are; the invocation makes no sticky lookup,
\* activity check or write-back; after the fetch of a non-empty pool it
\* goes to the increment, and its increment step adds one to the
\* campaign's counter and returns the selected phone with source
\* 'rotation'.
C30_StickyDisabledIgnoresMappings ==
    [][\A r \in DOMAIN inv :
         LET l == inv'[r].link
         IN  (inv'[r] # inv[r] /\ ~link[l].stickyEnabled)
             => /\ fpMap' = fpMap
                /\ Range(inv'[r].ops)
                      \subseteq {"getActivePhonesForLink", "incrementRotationCounter"}
                /\ inv'[r].mapping = NoPhone
                /\ inv'[r].result.source # "sticky"
                /\ (StepsFrom(r, "getActive") /\ getActivePhonesForLink(l) # <<>>)
                   => inv'[r].pc = "increment"
                /\ StepsFrom(r, "increment")
                   => /\ rotation'[l] = IF rotation[l] = NoRow THEN 1
                                        ELSE rotation[l] + 1
                      /\ inv'[r].pc = "done"
                      /\ inv'[r].result.source = "rotation"
                      /\ inv'[r].result.phoneId \in PhonesOf(l)]_vars

\* sticky was switched off on L1 after a click had written a mapping; a
\* later click of the same visitor, called while that mapping was
\* unexpired, made the pool fetch and the increment only and returned
\* another phone by rotation; the mapping is still there, unexpired
C30_Witness ==
    /\ ~link["L1"].stickyEnabled
    /\ \E r, s \in DOMAIN inv :
          /\ r < s
          /\ Rotated(r) /\ inv[r].link = "L1"
          /\ "setStickyMapping" \in Range(inv[r].ops)
          /\ Rotated(s) /\ inv[s].link = "L1" /\ inv[s].fp = inv[r].fp
          /\ inv[s].pinned = inv[r].result.phoneId
          /\ inv[s].ops = <<"getActivePhonesForLink", "incrementRotationCounter">>
          /\ inv[s].result.phoneId # inv[r].result.phoneId
          /\ inv[s].counter = inv[r].counter + 1
          /\ \E m \in Found(fpMap, "L1", inv[r].fp, now) :
                m.phoneId = inv[r].result.phoneId

\* C31: a reset of a campaign's counter leaves the phone entries, the
\* mappings, the link rows and the other campaigns' counters as they are,
\* and the next increment of the campaign returns 1; every click that took
\* the counter 1 of a campaign, before or after a reset, returned the first
\* entry of the shuffled order of the campaign's pool.
C31_ResetRestartsTheRotation ==
    [][/\ (budget'.admin < budget.admin /\ link' = link)
          => /\ phoneStatus' = phoneStatus
             /\ fpMap' = fpMap
             /\ inv' = inv
             /\ \E l \in Links :
                   /\ incrementRotationCounter(l)' = 1
                   /\ \A k \in Links \ {l} : rotation'[k] = rotation[k]
       /\ \A r \in DOMAIN inv :
             (Rotated(r) /\ inv[r].counter = 1)
             => LET pool == getActivePhonesForLink(inv[r].link)
                    entries == [k \in 1..Len(pool) |-> PhoneEntry(pool[k])]
                IN  inv[r].result.phoneId =
                       IF link[inv[r].link].rotationMode = "UNKNOWN"
                       THEN pool[1]
                       ELSE stableShuffle(entries, ShuffleSeed(inv[r].link))[1].id]_vars

\* the clicks on L1 took the counters 1 and 2, the counter was reset, and
\* the third click took the counter 1 again and returned the phone of the
\* first click
C31_Witness ==
    /\ Len(inv) = 3
    /\ \A r \in DOMAIN inv : Rotated(r) /\ inv[r].link = "L1"
    /\ inv[1].counter = 1 /\ inv[2].counter = 2 /\ inv[3].counter = 1
    /\ inv[3].result = inv[1].result
    /\ inv[2].result # inv[1].result
    /\ rotation["L1"] = 1
    /\ budget.admin = 0

SelectPhoneReturnsAnEntry ==
    \A phones \in PurePools, counter \in 0..(MaxCycles * MaxPool),
       seed \in PureSeeds, mode \in PureModes :
        Len(phones) > 0 => selectPhone(phones, counter, mode, seed) \in Range(phones)

\* C33: selectPhone returns an entry of every non-empty pool; the increment
\* step of an invocation that does not raise never returns 'fallback' and
\* selects a member of the pool the invocation fetched, and the invocation
\* returns that member with source 'rotation', at once or after the
\* write-back.
C33_RotationNeverFallsBack ==
    [][/\ SelectPhoneReturnsAnEntry
       /\ \A r \in DOMAIN inv :
            /\ (StepsFrom(r, "increment") /\ inv'[r].pc # "threw")
               => /\ inv[r].activePhones # <<>>
                  /\ inv'[r].result.source # "fallback"
                  /\ \/ /\ inv'[r].pc = "setSticky"
                        /\ inv'[r].selected \in Range(inv[r].activePhones)
                     \/ /\ inv'[r].pc = "done"
                        /\ inv'[r].result.source = "rotation"
                        /\ inv'[r].result.phoneId \in Range(inv[r].activePhones)
            /\ StepsFrom(r, "setSticky")
               => inv'[r].result = PhoneResult(inv[r].selected, "rotation")]_vars

\* two clicks on a WEIGHTED campaign with three active phones that nobody
\* touched took the counters 1 and 2 and returned two of its phones by
\* rotation
C33_Witness ==
    /\ link["L1"].rotationMode = "WEIGHTED"
    /\ Len(getActivePhonesForLink("L1")) = 3
    /\ budget.admin = MaxAdminOps
    /\ \E r, s \in DOMAIN inv :
          /\ Rotated(r) /\ inv[r].counter = 1
          /\ Rotated(s) /\ inv[s].counter = 2
          /\ inv[r].result.phoneId # inv[s].result.phoneId
          /\ {inv[r].result.phoneId, inv[s].result.phoneId} \subseteq PhonesOf("L1")

\* C34: the lookup and the activity check of an invocation, and with them
\* every sticky return (of the phone the lookup found), leave the mappings
\* as they are; a mapping appears
\* or changes only in the write-back step of an invocation that rotated,
\* and then its expiry is the time of that step plus the TTL hours.
C34_StickyHitDoesNotRefresh ==
    [][/\ \A r \in DOMAIN inv :
            (StepsFrom(r, "getSticky") \/ StepsFrom(r, "isActive"))
            => /\ fpMap' = fpMap
               /\ inv'[r].result.source = "sticky"
                  => inv'[r].result = PhoneResult(inv[r].mapping, "sticky")
       /\ \A m \in fpMap' \ fpMap :
            \E r \in DOMAIN inv :
               /\ StepsFrom(r, "setSticky")
               /\ m = [linkId |-> inv[r].link, fingerprintHash |-> inv[r].fp,
                       phoneId |-> inv[r].selected,
                       expiresAt |-> now + link[inv[r].link].stickyTtlHours]]_vars

\* the first click wrote the mapping, the second returned it as sticky, and
\* the third, called when the mapping had expired, rotated with the counter
\* 2: the hit did not extend the mapping
C34_Witness ==
    /\ Len(inv) = 3
    /\ budget.admin = MaxAdminOps
    /\ link["L1"].stickyEnabled
    /\ \A r \in DOMAIN inv : inv[r].pc = "done" /\ inv[r].link = "L1"
    /\ Rotated(1) /\ inv[1].counter = 1
    /\ inv[2].result = PhoneResult(inv[1].result.phoneId, "sticky")
    /\ Rotated(3) /\ inv[3].counter = 2 /\ inv[3].pinned = NoPhone
    /\ now = 1

\* C35: in every result an invocation has returned, the source is one of
\* the four; phoneId is null exactly when the source is 'default' or
\* 'fallback', and then phone is the campaign's defaultPhone; otherwise
\* phoneId is the id of a phone entry of the campaign and phone is that
\* entry's phoneNumber.
C35_ResultsAreWellFormed ==
    \A r \in DOMAIN inv :
        inv[r].pc = "done"
        => LET res == inv[r].result
           IN  /\ res.source \in {"rotation", "sticky", "default", "fallback"}
               /\ res.phoneId = NoPhone <=> res.source \in {"default", "fallback"}
               /\ res.phoneId = NoPhone => res.phone = link[inv[r].link].defaultPhone
               /\ res.phoneId # NoPhone
                  => /\ res.phoneId \in PhonesOf(inv[r].link)
                     /\ res.phone = PhoneNumber[res.phoneId]

\* results of both kinds have been returned: a rotation result naming a
\* phone entry, and the default result of a human click that found no
\* active phone
C35_Witness ==
    \E r, s \in DOMAIN inv :
        /\ Rotated(r) /\ inv[r].result.phoneId \in PhonesOf("L1")
        /\ inv[s].pc = "done" /\ ~inv[s].isBot
        /\ inv[s].result = DefaultResult("L1", "default")

(***************************************************************************)
(* The phone pool under administration: phones are added, paused,          *)
(* unpaused and deleted while clicks of a sticky campaign are in flight.   *)
(***************************************************************************)
\* admin operations of one behaviour of the pool specification
MaxPoolOps == 2

\* one campaign with sticky sessions, over every pool of Pools
InitPool ==
    Fresh([l \in Links |->
              IF l = "L1"
              THEN {[ColumnDefaults(l) EXCEPT !.stickyEnabled = TRUE]}
              ELSE {ColumnDefaults(l)}],
          Pools, {MaxClicks},
          [admin |-> MaxPoolOps, faults |-> MaxFaults, sweeps |-> 0,
           hours |-> MaxTime, concurrent |-> MaxConcurrent, links |-> {"L1"},
           visitors |-> Visitors, bots |-> {FALSE}, agents |-> {}, keys |-> {},
           phones |-> {}, overrideKey |-> ""])

NextPool ==
    \/ \E r \in DOMAIN inv : SelectStart(r)
    \/ \E r \in DOMAIN inv : GetActivePhones(r)
    \/ \E r \in DOMAIN inv : GetStickyMapping(r)
    \/ \E r \in DOMAIN inv : IsPhoneActive(r)
    \/ \E r \in DOMAIN inv : IncrementCounter(r)
    \/ \E r \in DOMAIN inv : SetStickyMapping(r)
    \/ \E p \in PhoneIds : AddPhone(p)
    \/ \E p \in PhoneIds : PausePhone(p)
    \/ \E p \in PhoneIds : UnpausePhone(p)
    \/ \E p \in PhoneIds : DeletePhone(p)
    \/ Tick

SpecPool == InitPool /\ [][NextPool]_vars

\* C36: every sticky mapping references an existing phone entry: after any
\* sequence of add, pause, unpause, delete and clicks no row of fingerprint_map
\* names a deleted phone, the delete of a phone leaves no mapping to it, and
\* the mapping a sticky lookup yields names a phone that exists at the lookup
C36_MappingsReferenceExistingPhones ==
    [][/\ \A m \in fpMap' : phoneStatus'[m.phoneId] # "NONE"
       /\ \A p \in PhoneIds :
              phoneStatus[p] # "NONE" /\ phoneStatus'[p] = "NONE"
              => \A m \in fpMap' : m.phoneId # p
       /\ \A r \in DOMAIN inv :
              StepsFrom(r, "getSticky") /\ inv'[r].pc = "isActive"
              => phoneStatus[inv'[r].mapping] # "NONE"]_vars

\* a click has written a sticky mapping to a phone, the phone has been
\* deleted within the mapping's lifetime, and a later click of the visitor
\* has fetched the pool without it and found no mapping
C36_Witness ==
    \E p \in PhoneIds, r, s \in DOMAIN inv :
        /\ phoneStatus[p] = "NONE" /\ now = 0
        /\ Rotated(r) /\ inv[r].result.phoneId = p
        /\ "setStickyMapping" \in Range(inv[r].ops) /\ inv[r].failed = "none"
        /\ inv[s].fp = inv[r].fp /\ inv[s].pc = "increment"
        /\ inv[s].ops = <<"getActivePhonesForLink", "getStickyMapping">>
        /\ Len(inv[s].activePhones) > 0
        /\ \A k \in 1..Len(inv[s].activePhones) : inv[s].activePhones[k] # p

\* the replies of human clicks that were served by the pool entry p
ServedBy(p) ==
    {r \in DOMAIN inv : /\ inv[r].pc = "replied"
                        /\ inv[r].reply.phoneId = p
                        /\ ~isBot(inv[r].request.userAgent)}

\* the replies whose phone is no pool entry: bot clicks, default and fallback
\* results, overrides, selections that threw, and the 400 and 404 replies
Unserved ==
    {r \in DOMAIN inv : inv[r].pc = "replied" /\ inv[r].reply.phoneId = NoPhone}

\* the clicks counted for the phones ps and their stats writes still running
RECURSIVE CountedOrRunning(_)
CountedOrRunning(ps) ==
    IF ps = {} THEN 0
    ELSE LET p == CHOOSE q \in ps : TRUE
         IN  totalClicks[p] + statsCalls[p] + CountedOrRunning(ps \ {p})

\* the stats writes that have failed: served clicks neither counted nor running
FailedStatsWrites ==
    Cardinality(UNION {ServedBy(p) : p \in PhoneIds}) - CountedOrRunning(PhoneIds)

\* C37: the per-phone statistics count exactly the human clicks served by a
\* pool entry: recordPhoneClick is started once for each reply of a non-bot
\* click with a phone id, and for no other reply; the clicks counted for p
\* plus the stats writes of p still running never exceed the clicks p has
\* served, and equal them when no storage call has failed; a stats write,
\* failed or not, leaves every click's reply as it is
C37_StatsCountServedHumanClicks ==
    [][/\ \A p \in PhoneIds :
              /\ totalClicks'[p] + statsCalls'[p] <= Cardinality(ServedBy(p)')
              /\ budget'.faults = MaxFaults
                 => totalClicks'[p] + statsCalls'[p] = Cardinality(ServedBy(p)')
              /\ statsCalls'[p] > statsCalls[p]
                 => /\ statsCalls'[p] = statsCalls[p] + 1
                    /\ Cardinality(ServedBy(p)') = Cardinality(ServedBy(p)) + 1
              /\ Cardinality(ServedBy(p)') > Cardinality(ServedBy(p))
                 => statsCalls'[p] = statsCalls[p] + 1
       /\ Unserved' # Unserved => statsCalls' = statsCalls
       /\ FailedStatsWrites' <= MaxFaults - budget'.faults
       /\ (\E p \in PhoneIds : statsCalls'[p] < statsCalls[p])
          => /\ inv' = inv
             /\ \E p \in PhoneIds :
                   /\ statsCalls' = [statsCalls EXCEPT ![p] = @ - 1]
                   /\ \/ totalClicks' = [totalClicks EXCEPT ![p] = @ + 1]
                      \/ totalClicks' = totalClicks /\ budget'.faults < budget.faults
      ]_vars

\* two human clicks were served by one pool entry, and both stats writes
\* have run and are counted
C37_Witness ==
    \E p \in PhoneIds :
        /\ Cardinality(ServedBy(p)) = 2
        /\ totalClicks[p] = 2
        /\ statsCalls[p] = 0

\* the string holds the ':' of the template
HasDelimiter(str) == \E k \in 1..Len(str) : <<str[k]>> = Colon

\* the string generateFingerprint hashes for the recorded arguments
PreHash(items) == FingerprintInput(items[1], items[2], items[3], items[4])

\* C38 as stated: two calls of generateFingerprint with different tuples
\* (ip, userAgent, linkId, salt) hash different strings and return different
\* fingerprints, also when ip or userAgent hold the ':' delimiter
C38_DistinctTuplesNeverCollide ==
    \A i, j \in CallsOf("generateFingerprint") :
        pure.calls[i].items # pure.calls[j].items
        => /\ PreHash(pure.calls[i].items) # PreHash(pure.calls[j].items)
           /\ pure.calls[i].out # pure.calls[j].out

\* C38: two calls of generateFingerprint with different tuples (ip,
\* userAgent, linkId, salt) whose ip, userAgent and linkId hold no ':' hash
\* different strings and return different fingerprints, so two such visitors
\* of one campaign never share the key of a sticky mapping; two tuples that
\* hash the same string return the same fingerprint
C38_DelimiterFreeTuplesNeverCollide ==
    \A i, j \in CallsOf("generateFingerprint") :
        LET a == pure.calls[i].items
            b == pure.calls[j].items
        IN  /\ /\ a # b
               /\ \A k \in 1..3 : ~HasDelimiter(a[k]) /\ ~HasDelimiter(b[k])
               => /\ PreHash(a) # PreHash(b)
                  /\ pure.calls[i].out # pure.calls[j].out
            /\ PreHash(a) = PreHash(b) => pure.calls[i].out = pure.calls[j].out

\* the fingerprints of two visitors of one campaign who differ in address
\* and in user agent, both without ':', were computed and differ
C38_Witness ==
    /\ Len(pure.calls) = 2
    /\ pure.calls[1].fn = "generateFingerprint"
    /\ pure.calls[2].fn = "generateFingerprint"
    /\ Changed(pure.calls[1].items, pure.calls[2].items) = {1, 2}
    /\ pure.calls[1].items[3] = Chars["L1"]
    /\ pure.calls[1].items[4] = STICKY_FINGERPRINT_SALT
    /\ \A c \in 1..2, k \in 1..3 : ~HasDelimiter(pure.calls[c].items[k])
    /\ pure.calls[1].out # pure.calls[2].out

====
